---- MODULE Spec2Model ----
(***************************************************************************)
(* Multi-account proxy runtime of copilot-api: the account store, the      *)
(* instance registry, the account selector (load balancer) and the         *)
(* request router with pool-mode retry.                                    *)
(***************************************************************************)
EXTENDS Integers, Sequences, FiniteSets, TLC

(***************************************************************************)
(* Bounds and input domains.                                               *)
(***************************************************************************)
\* Number of accounts in the store; account ids are 1..NAcc in store order.
NAcc == 3

Ids == 1 .. NAcc

\* Console operations (stop, start, update, delete) that interleave with one
\* suspended selectAccount call or with one in-flight request.
MaxGapSteps == 1

\* Priorities given to accounts, repeating along the store (3, 1, 2, 3, ...).
PriorityPattern == <<3, 1, 2>>

Priorities == {1, 2, 3}

Strategies == {"round-robin", "priority", "quota"}

\* The proxy API key generated for account id ("cpa-" + random hex).
AccountKeyNames == <<"cpa-1", "cpa-2", "cpa-3", "cpa-4", "cpa-5", "cpa-6">>

\* The pool API key ("cpp-" + random hex).
PoolKey == "cpp-0"

(***************************************************************************)
(* Program state.                                                          *)
(***************************************************************************)
VARIABLES
    accounts,   \* account-store.ts: store.accounts, an Array<Account>
    pool,       \* account-store.ts: store.pool, a PoolConfig or undefined
    status,     \* instance-manager: instances.get(id)?.status ("absent": no entry)
    usage,      \* usage-cache: the cached usage of each account, or NoUsage
    rrIndex,    \* load-balancer.ts: the module-level round-robin cursor
    sel,        \* a selectAccount call: its position and its locals
    req,        \* an inbound proxy request: its position and its Hono context
    rrTrace,    \* the accounts returned by consecutive round-robin calls
    sessions,   \* instance-manager: the ProxyInstance objects startInstance made
    registry,   \* instance-manager: which of them instances.get(id) is (0: none)
    ev,         \* the step of the instance manager that ran last
    quiet,      \* per id: stopInstance(id) returned and no startInstance(id) since
    stream,     \* a streamed response: the upstream events, the loop's position,
                \* its streamState and what it has written to the client
    count,      \* a call of countTokensHandler: its inputs and its response
    op          \* the console and the request filter: the admin store, the calls in
                \* progress on it, and what the last call was given and returned

imVars == <<sessions, registry, ev, quiet>>

hVars == <<stream, count, op>>

vars == <<accounts, pool, status, usage, rrIndex, sel, req, rrTrace, imVars, hVars>>

(***************************************************************************)
(* Values.                                                                 *)
(***************************************************************************)
NoAccount == [id |-> 0, apiKey |-> "", enabled |-> FALSE, priority |-> 0]

\* The State object held by the instance of account id; NoState is undefined.
StateOf(id) == [owner |-> id]

NoState == [owner |-> 0]

\* getCachedUsage(id) returned null.
NoUsage == [cached |-> FALSE, premium |-> <<0, 1>>, chat |-> <<0, 1>>,
            completions |-> <<0, 1>>]

\* A cached usage: each quota snapshot is <<remaining, entitlement>>.
Usage(p, c, k) == [cached |-> TRUE, premium |-> p, chat |-> c, completions |-> k]

NullResult == [found |-> FALSE, account |-> NoAccount, state |-> NoState]

Account(i, en, pr) ==
    [id |-> i, apiKey |-> AccountKeyNames[i], enabled |-> en, priority |-> pr]

(***************************************************************************)
(* Instance registry read accessors.                                       *)
(***************************************************************************)
getInstanceStateUnlessStopped(st, id) ==
    IF st[id] = "absent" \/ st[id] = "stopped" THEN NoState ELSE StateOf(id)

getInstanceStateIgnoringStatus(st, id) ==
    IF st[id] = "absent" THEN NoState ELSE StateOf(id)

\* getInstanceState: the state only of an instance whose status is running.
getInstanceState(st, id) ==
    IF st[id] = "absent" \/ st[id] # "running" THEN NoState ELSE StateOf(id)

\* getInstanceStatus: instances.get(accountId)?.status ?? "stopped"
getInstanceStatus(st, id) == IF st[id] = "absent" THEN "stopped" ELSE st[id]

\* state.copilotToken: undefined, the token setupInstanceToken stored, or one a
\* refresh stored.
NoToken == "undefined"

SetupToken == "token-of-setup"

RefreshToken == "token-of-refresh"

\* instance.error: undefined, or the message of the exception of a start.
NoError == "undefined"

\* The ProxyInstance startInstance(account) makes, with the position of that
\* call: at the version fetch, the token fetch of setupInstanceToken, the model
\* fetch, or over.
NewSession(id) ==
    [id |-> id, pc |-> "version", copilotToken |-> NoToken,
     tokenInterval |-> "unset", refreshing |-> FALSE, error |-> NoError]

\* getInstanceError: instances.get(accountId)?.error
getInstanceError(ss, reg, id) == IF reg[id] = 0 THEN NoError ELSE ss[reg[id]].error

\* A step: its kind, the account id, the session, and the message of the
\* exception it raises to its caller (NoError: none).
NoEvent == [kind |-> "none", id |-> 0, session |-> 0, raised |-> NoError]

Event(kind, id, k) == [kind |-> kind, id |-> id, session |-> k, raised |-> NoError]

\* No startInstance call was made and no instance-manager step is modelled.
NoInstances ==
    /\ sessions = <<>>
    /\ registry = [i \in Ids |-> 0]
    /\ ev = NoEvent
    /\ quiet = [i \in Ids |-> FALSE]

\* No response is being streamed.
NoStream == [mode |-> "none", input |-> <<>>, pos |-> 0, live |-> FALSE,
             out |-> <<>>, state |-> <<>>]

\* No call of the console or of the request filter has been made.
NoOp == [kind |-> "none"]

\* countTokensHandler is not being called.
NoCount ==
    [pc |-> "idle", model |-> <<>>, catalog |-> {}, tokenCount |-> [input |-> 0, output |-> 0],
     throws |-> "nowhere", response |-> [status |-> 0, input_tokens |-> 0]]

(***************************************************************************)
(* Account selector (load-balancer.ts).                                    *)
(***************************************************************************)
getRunningAccountsIgnoringEnabled(all, st) ==
    SelectSeq(all, LAMBDA a : getInstanceState(st, a.id) # NoState)

\* getRunningAccounts: accounts.filter(a => a.enabled && getInstanceState(a.id))
getRunningAccounts(all, st) ==
    SelectSeq(all, LAMBDA a : a.enabled /\ getInstanceState(st, a.id) # NoState)

FilterExcludeNothing(running, exclude) == running

\* if (exclude?.size) running = running.filter(a => !exclude.has(a.id))
FilterExclude(running, exclude) ==
    IF exclude # {} THEN SelectSeq(running, LAMBDA a : a.id \notin exclude)
    ELSE running

\* JavaScript numbers as far as the selector computes them: a finite value or
\* NaN (0 / 0).
Fin(v) == [nan |-> FALSE, v |-> v]

NaN == [nan |-> TRUE, v |-> 0]

\* What Array.prototype.sort makes of the comparator's result b - a: NaN counts
\* as +0.
Minus(b, a) == IF b.nan \/ a.nan THEN 0 ELSE b.v - a.v

\* Array.prototype.sort with the comparator (a, b) => b.key - a.key. The sort is
\* stable: x goes after every element that does not compare greater than it,
\* i.e. after every s[k] with x.key - s[k].key <= 0.
RECURSIVE InsertSorted(_, _)
InsertSorted(s, x) ==
    IF s = <<>> THEN <<x>>
    ELSE IF Minus(x.key, s[Len(s)].key) <= 0 THEN Append(s, x)
    ELSE Append(InsertSorted(SubSeq(s, 1, Len(s) - 1), x), s[Len(s)])

RECURSIVE SortDescending(_)
SortDescending(s) ==
    IF s = <<>> THEN <<>>
    ELSE InsertSorted(SortDescending(SubSeq(s, 1, Len(s) - 1)), s[Len(s)])

SortByPriorityAscending(running) ==
    LET keyed == SortDescending([i \in 1 .. Len(running) |->
                     [key |-> Fin(-running[i].priority), item |-> running[i]]])
    IN  [i \in 1 .. Len(running) |-> keyed[i].item]

\* running.sort((a, b) => b.priority - a.priority)
SortByPriority(running) ==
    LET keyed == SortDescending([i \in 1 .. Len(running) |->
                     [key |-> Fin(running[i].priority), item |-> running[i]]])
    IN  [i \in 1 .. Len(running) |-> keyed[i].item]

\* Scores are kept as 3 * ScoreScale * score, so that the average of the three
\* ratios remaining / entitlement is an integer whenever every entitlement
\* divides ScoreScale * remaining.
ScoreScale == 4

\* remaining / entitlement; 0 / 0 is NaN.
Ratio(q) == IF q[2] = 0 THEN NaN ELSE Fin((q[1] * ScoreScale) \div q[2])

\* a + b; NaN if either is.
Plus(a, b) == IF a.nan \/ b.nan THEN NaN ELSE Fin(a.v + b.v)

\* score: -1 without cached usage, else the average of the three ratios.
QuotaScore(u) ==
    IF ~u.cached THEN Fin(-(3 * ScoreScale))
    ELSE Plus(Plus(Ratio(u.premium), Ratio(u.chat)), Ratio(u.completions))

\* score < 0; false for NaN.
Negative(x) == ~x.nan /\ x.v < 0

\* Lines 47-67: every candidate with its score.
ScoredAccounts(running, us) ==
    [i \in 1 .. Len(running) |->
        [key |-> QuotaScore(us[running[i].id]), item |-> running[i]]]

\* accountsWithQuota.sort((a, b) => b.score - a.score)
AccountsWithQuota(running, us) == SortDescending(ScoredAccounts(running, us))

\* The comparator orders the elements consistently unless a NaN score meets two
\* scores that differ: NaN compares equal to everything.
ConsistentComparator(keyed) ==
    \/ \A i \in 1 .. Len(keyed) : ~keyed[i].key.nan
    \/ \A i, j \in 1 .. Len(keyed) : Minus(keyed[i].key, keyed[j].key) = 0

Reorderings(s) ==
    {[i \in 1 .. Len(s) |-> s[p[i]]] :
        p \in {q \in [1 .. Len(s) -> 1 .. Len(s)] :
                   \A i, j \in 1 .. Len(s) : i # j => q[i] # q[j]}}

\* What accountsWithQuota may hold after the sort: the stable descending order,
\* or, with an inconsistent comparator, an order the engine chooses.
SortOutcomes(running, us) ==
    IF ConsistentComparator(ScoredAccounts(running, us))
    THEN {AccountsWithQuota(running, us)}
    ELSE Reorderings(ScoredAccounts(running, us))

RoundRobinPickKeepingCursor(running, rr) ==
    [selected |-> running[(rr % Len(running)) + 1], rrIndex |-> rr % Len(running),
     byCursor |-> TRUE]

\* The round-robin branch: rrIndex %= n; selected = running[rrIndex]; rrIndex = (rrIndex + 1) % n
RoundRobinPick(running, rr) ==
    LET i == rr % Len(running)
    IN  [selected |-> running[i + 1], rrIndex |-> (i + 1) % Len(running),
         byCursor |-> TRUE]

QuotaFallbackPickKeepingCursor(running, rr) ==
    [selected |-> running[(rr % Len(running)) + 1], rrIndex |-> rr % Len(running),
     byCursor |-> TRUE]

\* The fallback of the quota branch (the same three statements, written again).
QuotaFallbackPick(running, rr) ==
    LET i == rr % Len(running)
    IN  [selected |-> running[i + 1], rrIndex |-> (i + 1) % Len(running),
         byCursor |-> TRUE]

PriorityPickAdvancingCursor(running, rr) ==
    [selected |-> SortByPriority(running)[1], rrIndex |-> (rr + 1) % Len(running),
     byCursor |-> FALSE]

\* The priority branch: running.sort by priority descending; selected = running[0]
PriorityPick(running, rr) ==
    [selected |-> SortByPriority(running)[1], rrIndex |-> rr, byCursor |-> FALSE]

QuotaPickWithoutFallback(running, sorted, rr) ==
    [selected |-> sorted[1].item, rrIndex |-> rr, byCursor |-> FALSE]

\* Lines 70-77, sorted being accountsWithQuota after the sort.
QuotaPick(running, sorted, rr) ==
    IF Negative(sorted[1].key) THEN QuotaFallbackPick(running, rr)
    ELSE [selected |-> sorted[1].item, rrIndex |-> rr, byCursor |-> FALSE]

\* Lines 85-88: the state is looked up again when the call returns.
SelectResult(selected, st) ==
    IF getInstanceState(st, selected.id) = NoState THEN NullResult
    ELSE [found |-> TRUE, account |-> selected,
          state |-> getInstanceState(st, selected.id)]

\* Lines 29-34: the candidates of a call.
Candidates(all, st, exclude) == FilterExclude(getRunningAccounts(all, st), exclude)

\* The locals of a selectAccount call: pc is "idle" (no call), "usage" (suspended
\* at the reads of the usage cache, quota only) or "returned" (result holds what
\* the call returned to its caller), byCursor tells whether the account was
\* picked by the round-robin statements. rr0 is the cursor the branch started from,
\* steps counts the registry changes made while the call was suspended.
SelIdle ==
    [pc |-> "idle", strategy |-> "round-robin", exclude |-> {}, all |-> <<>>,
     running |-> <<>>, rr0 |-> 0, steps |-> 0, result |-> NullResult,
     byCursor |-> FALSE]

SelReturned(strategy, exclude, all, running, rr, steps, result) ==
    [pc |-> "returned", strategy |-> strategy, exclude |-> exclude, all |-> all,
     running |-> running, rr0 |-> rr, steps |-> steps, result |-> result,
     byCursor |-> FALSE]

SelSuspended(strategy, exclude, all, running) ==
    [SelIdle EXCEPT !.pc = "usage", !.strategy = strategy, !.exclude = exclude,
                    !.all = all, !.running = running]

\* selectAccount from its entry to its first suspension after the store is read:
\* the whole call for round-robin and priority, lines 29-46 for quota.
SelectEnter(strategy, exclude) ==
    LET all == accounts
        running == Candidates(all, status, exclude)
        pick == IF strategy = "priority" THEN PriorityPick(running, rrIndex)
                ELSE RoundRobinPick(running, rrIndex)
    IN  IF running = <<>>
        THEN /\ sel' = SelReturned(strategy, exclude, all, running, rrIndex, 0, NullResult)
             /\ rrIndex' = rrIndex
        ELSE IF strategy = "quota"
        THEN /\ sel' = SelSuspended(strategy, exclude, all, running)
             /\ rrIndex' = rrIndex
        ELSE /\ sel' = [SelReturned(strategy, exclude, all, running, rrIndex, 0,
                                    SelectResult(pick.selected, status))
                          EXCEPT !.byCursor = pick.byCursor]
             /\ rrIndex' = pick.rrIndex

\* selectAccount resumed with the cached usages: lines 47-88 of the quota branch.
SelectResume ==
    \E sorted \in SortOutcomes(sel.running, usage) :
        LET pick == QuotaPick(sel.running, sorted, rrIndex)
        IN  /\ sel' = [SelReturned(sel.strategy, sel.exclude, sel.all, sel.running,
                                   rrIndex, sel.steps,
                                   SelectResult(pick.selected, status))
                          EXCEPT !.byCursor = pick.byCursor]
            /\ rrIndex' = pick.rrIndex

(***************************************************************************)
(* The environment of a call: the console API acting on the registry and   *)
(* on the store.                                                           *)
(***************************************************************************)
\* stopInstance(id): no-op if absent, else status stopped; the entry stays.
stopInstanceRemovingEntry(id) ==
    status' = [status EXCEPT ![id] = "absent"]

stopInstance(id) ==
    status' = [status EXCEPT ![id] = IF @ = "absent" THEN @ ELSE "stopped"]

\* startInstance(account) when it ends: instances.set with running or error.
startInstanceEnds(id, ok) ==
    status' = [status EXCEPT ![id] = IF ok THEN "running" ELSE "error"]

\* updateAccount(id, {enabled}): store.accounts[index] = {...account, ...updates}
updateAccount(id, en) ==
    accounts' = [k \in 1 .. Len(accounts) |->
                    IF accounts[k].id = id THEN [accounts[k] EXCEPT !.enabled = en]
                    ELSE accounts[k]]

\* DELETE /accounts/:id: stopInstance(id), then store.accounts.splice(index, 1).
deleteAccount(id) ==
    /\ stopInstance(id)
    /\ accounts' = SelectSeq(accounts, LAMBDA a : a.id # id)

StoredIds == {accounts[k].id : k \in 1 .. Len(accounts)}

(***************************************************************************)
(* Request router (console/index.ts): proxyAuth and withPoolRetry.         *)
(***************************************************************************)
\* store.pool is undefined.
NoPool == [configured |-> FALSE, enabled |-> FALSE, strategy |-> "round-robin",
           apiKey |-> ""]

PoolConfig(en, strategy, key) ==
    [configured |-> TRUE, enabled |-> en, strategy |-> strategy, apiKey |-> key]

\* The key generatePoolApiKey() gives a legacy store that holds none.
BackfilledPoolKey == "cpp-1"

\* Upstream statuses a handler answers with.
Statuses == {200, 401, 429, 499, 500}

\* Bearer tokens clients present: no key, an unknown key, account keys, the pool key.
Tokens == {"", "bad", PoolKey} \cup {AccountKeyNames[i] : i \in Ids}

\* Authorization headers, as their words; <<>> is a request without the header.
Headers ==
    {<<>>} \cup {<<"Bearer", t>> : t \in Tokens} \cup {<<"bearer", t>> : t \in Tokens}
           \cup {<<t>> : t \in Tokens}

\* auth?.replace(/^Bearer\s+/i, ""): the header without its Bearer prefix.
Token(header) ==
    IF header = <<>> THEN ""
    ELSE IF Len(header) > 1 /\ header[1] \in {"Bearer", "bearer"} THEN header[2]
    ELSE header[1]

NoResponse == [status |-> 0, by |-> 0]

\* A response with this status, produced on the session of account by (0: by
\* the router itself).
Response(st, by) == [status |-> st, by |-> by]

\* An inbound request: its position, its route, its Hono context (proxyState,
\* poolMode, poolStrategy, poolAccountId), the locals of withPoolRetry (exclude,
\* firstResponse) and the response sent. calls lists the handler invocations
\* (account and status answered, 0 while in flight), jsonBody tells whether the
\* body parses as JSON, selects counts the
\* selectAccount calls, statusAtAuth is the status of the account the key names
\* as proxyAuth saw it, steps counts the registry changes made meanwhile.
\* handler is the handler of the route, responsesOnly tells whether the catalogs
\* list the requested model with /responses as its only endpoint, maxTokensIn
\* is max_tokens of the inbound body (0: none), bodyMaxTokens is max_tokens of
\* the body object the handlers read, escaped tells whether an exception left
\* the route handler.
ReqIdle ==
    [pc |-> "idle", route |-> "retry", jsonBody |-> TRUE, token |-> "", statusAtAuth |-> "none",
     proxyState |-> NoState, poolMode |-> FALSE, poolStrategy |-> "none",
     poolAccountId |-> 0, exclude |-> {}, firstResponse |-> NoResponse,
     response |-> NoResponse, calls |-> <<>>, selects |-> 0, exhausted |-> FALSE,
     steps |-> 0, handler |-> "completionsHandler", responsesOnly |-> FALSE,
     maxTokensIn |-> 0, bodyMaxTokens |-> 0, escaped |-> FALSE]

getAccountByApiKeyOfNone(all, key) == NoAccount

\* store.accounts.find(a => a.apiKey === apiKey)
getAccountByApiKey(all, key) ==
    IF \E k \in 1 .. Len(all) : all[k].apiKey = key
    THEN all[CHOOSE k \in 1 .. Len(all) :
                /\ all[k].apiKey = key
                /\ \A j \in 1 .. k - 1 : all[j].apiKey # key]
    ELSE NoAccount

getPoolConfigCreating(p) ==
    IF ~p.configured THEN PoolConfig(FALSE, "round-robin", BackfilledPoolKey)
    ELSE IF p.apiKey = "" THEN [p EXCEPT !.apiKey = BackfilledPoolKey]
    ELSE p

\* getPoolConfig: undefined without a pool entry; a legacy entry gets an apiKey.
getPoolConfig(p) ==
    IF ~p.configured THEN p
    ELSE IF p.apiKey = "" THEN [p EXCEPT !.apiKey = BackfilledPoolKey]
    ELSE p

PoolAcceptsWhenDisabled(p, token) ==
    ~(~p.configured \/ token = "" \/ token # p.apiKey)

\* Line 213, negated: the pool is enabled and the token is its apiKey.
PoolAccepts(p, token) ==
    ~(~p.configured \/ ~p.enabled \/ token = "" \/ token # p.apiKey)

isRetryableStatusOnly5xx(st) == st >= 500

\* isRetryableStatus
isRetryableStatus(st) == st = 429 \/ st >= 500

UsesPoolRetryAlways(r) == TRUE

\* withPoolRetry: const isPool = c.get("poolMode")
UsesPoolRetry(r) == r.poolMode

ExhaustedResponseLast(r) ==
    Response(r.calls[Len(r.calls)].status, r.calls[Len(r.calls)].id)

\* Line 267: with no account left, withPoolRetry returns firstResponse.
ExhaustedResponse(r) == r.firstResponse

\* The response is sent: the request is over.
Respond(r, resp) == [r EXCEPT !.pc = "done", !.response = resp]

\* The handlers mounted behind withPoolRetry.
Handlers ==
    {"completionsHandler", "embeddingsHandler", "messagesHandler", "countTokensHandler"}

\* capabilities.limits.max_output_tokens of the requested model in the catalog
\* of each session, repeating along the store; 0: the catalog does not list it.
OutputLimitPattern == <<4096, 8192, 0>>

MaxOutputTokens(id) ==
    IF id = 0 THEN 0
    ELSE OutputLimitPattern[((id - 1) % Len(OutputLimitPattern)) + 1]

\* A handler invocation: the account of the session, what the upstream
\* answered (0: no status, the fetch threw or was not reached), the status and
\* the body of the handler's response (0 and "none" while it is suspended), and
\* max_tokens of the payload it forwards (0: none).
Call(id, maxTokens) ==
    [id |-> id, up |-> 0, status |-> 0, body |-> "none", maxTokens |-> maxTokens]

\* if (!payload.max_tokens && selectedModel) payload.max_tokens = ...limit:
\* completionsHandler and messagesHandler back-fill max_tokens from the catalog
\* of the session they are called with.
BackfillsMaxTokens(handler) == handler \in {"completionsHandler", "messagesHandler"}

BackfilledMaxTokens(handler, maxTokens, limit) ==
    IF BackfillsMaxTokens(handler) /\ maxTokens = 0 /\ limit # 0 THEN limit
    ELSE maxTokens

\* completionsHandler assigns to the payload it read. In pool mode that is the
\* object withPoolRetry buffered, which every later attempt reads again;
\* messagesHandler assigns to the object translateToOpenAI made.
BodyAfter(r, st) ==
    IF r.handler = "completionsHandler" /\ r.poolMode
    THEN BackfilledMaxTokens(r.handler, r.bodyMaxTokens, MaxOutputTokens(st.owner))
    ELSE r.bodyMaxTokens

\* handler(c, st) is called and suspends at its upstream call.
Invoke(r, pc, st) ==
    [r EXCEPT !.pc = pc,
              !.calls = Append(@, Call(st.owner,
                            BackfilledMaxTokens(r.handler, r.bodyMaxTokens,
                                                MaxOutputTokens(st.owner)))),
              !.bodyMaxTokens = BodyAfter(r, st)]

\* The route handler that follows proxyAuth: modelsHandler answers at once from
\* the bound state, every other route goes through withPoolRetry, whose first
\* attempt (or only one, outside pool mode) uses the bound state. In pool mode
\* withPoolRetry first parses the body: c.req.json() throws on a body that is
\* not JSON and the framework answers 500.
RouteHandler(r) ==
    IF r.route = "models"
    THEN Respond([r EXCEPT !.calls = Append(@, [Call(r.proxyState.owner, 0) EXCEPT
                                                   !.status = 200, !.body = "data"])],
                 Response(200, r.proxyState.owner))
    ELSE IF UsesPoolRetry(r) /\ ~r.jsonBody
    THEN Respond([r EXCEPT !.escaped = TRUE], Response(500, 0))
    ELSE Invoke(r, "first", r.proxyState)

\* proxyAuth after selectAccount(poolConfig.strategy) returned (lines 218-226).
AfterAuthSelect(r, strategy, result) ==
    IF ~result.found THEN Respond(r, Response(503, 0))
    ELSE RouteHandler([r EXCEPT !.proxyState = result.state, !.poolMode = TRUE,
                                !.poolStrategy = strategy,
                                !.poolAccountId = result.account.id])

\* withPoolRetry after selectAccount(strategy, exclude) returned (lines 265-273).
AfterRetrySelect(r, result) ==
    IF ~result.found
    THEN Respond([r EXCEPT !.exhausted = TRUE], ExhaustedResponse(r))
    ELSE Invoke([r EXCEPT !.exclude = @ \cup {result.account.id},
                          !.proxyState = result.state],
                "again", result.state)

\* proxyAuth, up to the handler's first suspension or to its own answer.
ProxyAuth(header, route, jsonBody) ==
    LET token == Token(header)
        account == getAccountByApiKey(accounts, token)
        r == [req EXCEPT !.route = route, !.jsonBody = jsonBody, !.token = token]
        poolConfig == getPoolConfig(pool)
    IN  /\ req.pc = "idle"
        /\ IF token # "" /\ account # NoAccount
           THEN /\ req' = LET seen == [r EXCEPT !.statusAtAuth = status[account.id]]
                          IN  IF getInstanceState(status, account.id) = NoState
                              THEN Respond(seen, Response(503, 0))
                              ELSE RouteHandler([seen EXCEPT !.proxyState =
                                       getInstanceState(status, account.id)])
                /\ UNCHANGED <<pool, sel, rrIndex>>
           ELSE /\ pool' = poolConfig
                /\ IF ~PoolAccepts(poolConfig, token)
                   THEN /\ req' = Respond(r, Response(401, 0))
                        /\ UNCHANGED <<sel, rrIndex>>
                   ELSE /\ SelectEnter(poolConfig.strategy, {})
                        /\ req' = LET called == [r EXCEPT !.selects = @ + 1]
                                  IN  IF sel'.pc = "usage"
                                      THEN [called EXCEPT !.pc = "authSelect",
                                                          !.poolStrategy = poolConfig.strategy]
                                      ELSE AfterAuthSelect(called, poolConfig.strategy,
                                                           sel'.result)
        /\ UNCHANGED <<accounts, status, usage, imVars, hVars, rrTrace>>

\* The handler returns a response with this status and body to withPoolRetry
\* (lines 242-261 and 273-276), the upstream having answered up.
HandlerAnswers(st, up, body) ==
    LET n == Len(req.calls)
        r == [req EXCEPT !.calls[n].status = st, !.calls[n].up = up,
                         !.calls[n].body = body]
        resp == Response(st, req.calls[n].id)
    IN  /\ req.pc \in {"first", "again"}
        /\ req' = IF ~UsesPoolRetry(r) THEN Respond(r, resp)
                  ELSE IF req.pc = "first"
                  THEN IF ~isRetryableStatus(st)
                       THEN Respond([r EXCEPT !.firstResponse = resp], resp)
                       ELSE [r EXCEPT !.firstResponse = resp, !.pc = "retry",
                                      !.exclude = @ \cup {r.poolAccountId}]
                  ELSE IF ~isRetryableStatus(st) THEN Respond(r, resp)
                       ELSE [r EXCEPT !.pc = "retry"]
        /\ UNCHANGED <<accounts, pool, status, usage, imVars, hVars, rrIndex, sel, rrTrace>>

\* The handler's upstream call ends and the handler returns a response with
\* this status, whatever the handler and the upstream's answer.
HandlerReturns(st) == HandlerAnswers(st, 0, "unknown")

\* response.ok
Ok(up) == up >= 200 /\ up <= 299

\* The catch block of a handler: c.json({error: {message, type}}, 500), and
\* c.json({input_tokens: 1}) in countTokensHandler.
CatchResponse(handler) ==
    IF handler = "countTokensHandler" THEN [status |-> 200, body |-> "data", up |-> 0]
    ELSE [status |-> 500, body |-> "error", up |-> 0]

\* if (!response.ok) return c.json({error: {message: text, type}}, response.status)
ForwardedError(up) == [status |-> up, body |-> "error", up |-> up]

\* if (!response.ok) throw new HTTPError(...), caught by the handler's catch block.
ThrownError(handler, up) == [CatchResponse(handler) EXCEPT !.up = up]

\* completionsHandler calls createResponsesAsCompletions when the catalog of its
\* session lists the model with /responses and without /chat/completions.
needsResponsesApi(r, id) ==
    r.handler = "completionsHandler" /\ r.responsesOnly /\ MaxOutputTokens(id) # 0

\* The response of a handler whose upstream call ended with up (0: the fetch
\* threw). countTokensHandler makes no upstream call.
HandlerResponse(r, id, up) ==
    IF r.handler = "countTokensHandler" THEN CatchResponse(r.handler)
    ELSE IF up = 0 THEN CatchResponse(r.handler)
    ELSE IF Ok(up) THEN [status |-> 200, body |-> "data", up |-> up]
    ELSE IF r.handler = "embeddingsHandler" \/ needsResponsesApi(r, id)
    THEN ThrownError(r.handler, up)
    ELSE ForwardedError(up)

\* The upstream call of the suspended handler ends.
UpstreamReturns(up) ==
    LET resp == HandlerResponse(req, req.calls[Len(req.calls)].id, up)
    IN  /\ req.pc \in {"first", "again"}
        /\ req.jsonBody
        /\ HandlerAnswers(resp.status, resp.up, resp.body)

\* Outside pool mode the handler parses the body itself: c.req.json() throws on a
\* body that is not JSON, inside the handler's try.
HandlerParseFails ==
    LET resp == CatchResponse(req.handler)
    IN  /\ req.pc = "first"
        /\ ~req.jsonBody
        /\ HandlerAnswers(resp.status, resp.up, resp.body)

\* withPoolRetry asks for another account (line 264).
RetrySelect ==
    /\ req.pc = "retry"
    /\ SelectEnter(IF req.poolStrategy = "none" THEN "round-robin" ELSE req.poolStrategy,
                   req.exclude)
    /\ req' = LET called == [req EXCEPT !.selects = @ + 1]
              IN  IF sel'.pc = "usage" THEN [called EXCEPT !.pc = "retrySelect"]
                  ELSE AfterRetrySelect(called, sel'.result)
    /\ UNCHANGED <<accounts, pool, status, usage, imVars, hVars, rrTrace>>

\* A suspended selectAccount("quota") call returns to proxyAuth or withPoolRetry.
SelectReturns ==
    /\ req.pc \in {"authSelect", "retrySelect"}
    /\ sel.pc = "usage"
    /\ SelectResume
    /\ req' = IF req.pc = "authSelect"
              THEN AfterAuthSelect(req, req.poolStrategy, sel'.result)
              ELSE AfterRetrySelect(req, sel'.result)
    /\ UNCHANGED <<accounts, pool, status, usage, imVars, hVars, rrTrace>>

InFlight == req.pc \in {"first", "again", "retry", "authSelect", "retrySelect"}

\* While the request is suspended the console stops or starts instances.
ReqStop(id) ==
    /\ InFlight /\ req.steps < MaxGapSteps
    /\ status[id] = "running"
    /\ stopInstance(id)
    /\ req' = [req EXCEPT !.steps = @ + 1]
    /\ UNCHANGED <<accounts, pool, usage, imVars, hVars, rrIndex, sel, rrTrace>>

ReqStart(id, ok) ==
    /\ InFlight /\ req.steps < MaxGapSteps
    /\ status[id] # (IF ok THEN "running" ELSE "error")
    /\ startInstanceEnds(id, ok)
    /\ req' = [req EXCEPT !.steps = @ + 1]
    /\ UNCHANGED <<accounts, pool, usage, imVars, hVars, rrIndex, sel, rrTrace>>

(***************************************************************************)
(* SpecSel: selectAccount called with any strategy and exclusion set over  *)
(* any store and registry, the environment acting while a call is          *)
(* suspended.                                                              *)
(***************************************************************************)
\* What an account is when a call starts: at most one thing keeps it from being
\* a candidate.
Roles == {"ready", "readyUsage", "disabled", "stopped"}

UsageHalf == Usage(<<1, 2>>, <<1, 2>>, <<1, 2>>)

PriorityOf(i) == PriorityPattern[((i - 1) % Len(PriorityPattern)) + 1]

AccountsOfRoles(role) ==
    [i \in 1 .. NAcc |-> Account(i, role[i] # "disabled", PriorityOf(i))]

StatusOfRoles(role) ==
    [i \in Ids |-> IF role[i] = "stopped" THEN "stopped" ELSE "running"]

UsageOfRoles(role) ==
    [i \in Ids |-> IF role[i] = "readyUsage" THEN UsageHalf ELSE NoUsage]

InitSel ==
    /\ \E role \in [Ids -> Roles] :
          /\ accounts = AccountsOfRoles(role)
          /\ status = StatusOfRoles(role)
          /\ usage = UsageOfRoles(role)
    /\ rrIndex \in 0 .. NAcc - 1
    /\ sel = SelIdle
    /\ pool = NoPool
    /\ req = ReqIdle
    /\ rrTrace = <<>>
    /\ NoInstances
    /\ stream = NoStream
    /\ count = NoCount
    /\ op = NoOp

SelCall(strategy, exclude) ==
    /\ sel.pc = "idle"
    /\ SelectEnter(strategy, exclude)
    /\ UNCHANGED <<accounts, pool, status, usage, imVars, hVars, req, rrTrace>>

SelResume ==
    /\ sel.pc = "usage"
    /\ SelectResume
    /\ UNCHANGED <<accounts, pool, status, usage, imVars, hVars, req, rrTrace>>

\* The caller takes the result; further calls follow in an unchanged registry.
SelTaken ==
    /\ sel.pc = "returned" /\ sel.steps = 0
    /\ sel' = SelIdle
    /\ UNCHANGED <<accounts, pool, status, usage, imVars, hVars, rrIndex, req, rrTrace>>

SelStop(id) ==
    /\ sel.pc = "usage" /\ sel.steps < MaxGapSteps
    /\ status[id] = "running"
    /\ stopInstance(id)
    /\ sel' = [sel EXCEPT !.steps = @ + 1]
    /\ UNCHANGED <<accounts, pool, usage, imVars, hVars, rrIndex, req, rrTrace>>

\* A startInstance call ends. It began while the instance was not running; it
\* may end after another start of the same account has made it running.
SelStart(id, ok) ==
    /\ sel.pc = "usage" /\ sel.steps < MaxGapSteps
    /\ status[id] # (IF ok THEN "running" ELSE "error")
    /\ startInstanceEnds(id, ok)
    /\ sel' = [sel EXCEPT !.steps = @ + 1]
    /\ UNCHANGED <<accounts, pool, usage, imVars, hVars, rrIndex, req, rrTrace>>

\* PUT /accounts/:id with enabled false: the store changes, the instance stays.
SelDisable(id) ==
    /\ sel.pc = "usage" /\ sel.steps < MaxGapSteps
    /\ \E k \in 1 .. Len(accounts) : accounts[k].id = id /\ accounts[k].enabled
    /\ updateAccount(id, FALSE)
    /\ sel' = [sel EXCEPT !.steps = @ + 1]
    /\ UNCHANGED <<pool, status, usage, imVars, hVars, rrIndex, req, rrTrace>>

\* DELETE /accounts/:id
SelDelete(id) ==
    /\ sel.pc = "usage" /\ sel.steps < MaxGapSteps
    /\ id \in StoredIds
    /\ deleteAccount(id)
    /\ sel' = [sel EXCEPT !.steps = @ + 1]
    /\ UNCHANGED <<pool, usage, imVars, hVars, rrIndex, req, rrTrace>>

\* The accounts a suspended call is choosing among; what the console does to
\* any other account does not reach the call.
SelCandidateIds == {sel.running[k].id : k \in 1 .. Len(sel.running)}

NextSel ==
    \/ \E strategy \in Strategies, exclude \in SUBSET Ids : SelCall(strategy, exclude)
    \/ SelResume
    \/ SelTaken
    \/ \E id \in SelCandidateIds : SelStop(id)
    \/ \E id \in SelCandidateIds, ok \in BOOLEAN : SelStart(id, ok)
    \/ \E id \in SelCandidateIds : SelDisable(id)
    \/ \E id \in SelCandidateIds : SelDelete(id)

SpecSel == InitSel /\ [][NextSel]_vars

(***************************************************************************)
(* SpecPri: selectAccount("priority", exclude) over stores of any          *)
(* priorities, instances being stopped between calls.                      *)
(***************************************************************************)
InitPri ==
    /\ \E role \in [Ids -> {"ready", "disabled", "stopped"}],
          pr \in [Ids -> Priorities] :
          /\ accounts = [i \in 1 .. NAcc |-> Account(i, role[i] # "disabled", pr[i])]
          /\ status = StatusOfRoles(role)
    /\ usage = [i \in Ids |-> NoUsage]
    /\ rrIndex = 0
    /\ sel = SelIdle
    /\ pool = NoPool
    /\ req = ReqIdle
    /\ rrTrace = <<>>
    /\ NoInstances
    /\ stream = NoStream
    /\ count = NoCount
    /\ op = NoOp

PriCall(exclude) == SelCall("priority", exclude)

PriStop(id) ==
    /\ sel.pc = "idle"
    /\ status[id] = "running"
    /\ stopInstance(id)
    /\ UNCHANGED <<accounts, pool, usage, imVars, hVars, rrIndex, sel, req, rrTrace>>

NextPri ==
    \/ \E exclude \in SUBSET Ids : PriCall(exclude)
    \/ SelTaken
    \/ \E id \in Ids : PriStop(id)

SpecPri == InitPri /\ [][NextPri]_vars

(***************************************************************************)
(* SpecRR: consecutive selectAccount("round-robin") calls, with the        *)
(* registry changes and the other selections that may come between them.   *)
(***************************************************************************)
\* The window of consecutive round-robin calls that is remembered.
MaxTrace == 2 * NAcc

InitRR ==
    /\ \E role \in [Ids -> {"ready", "disabled", "stopped"}] :
          /\ accounts = AccountsOfRoles(role)
          /\ status = StatusOfRoles(role)
    /\ usage = [i \in Ids |-> NoUsage]
    /\ rrIndex \in 0 .. NAcc - 1
    /\ sel = SelIdle
    /\ pool = NoPool
    /\ req = ReqIdle
    /\ rrTrace = <<>>
    /\ NoInstances
    /\ stream = NoStream
    /\ count = NoCount
    /\ op = NoOp

Remember(trace, id) ==
    IF Len(trace) < MaxTrace THEN Append(trace, id) ELSE Append(Tail(trace), id)

\* selectAccount("round-robin") without exclusions.
RRCall ==
    /\ sel.pc # "usage"
    /\ SelectEnter("round-robin", {})
    /\ rrTrace' = IF sel'.result.found THEN Remember(rrTrace, sel'.result.account.id)
                  ELSE <<>>
    /\ UNCHANGED <<accounts, pool, status, usage, imVars, hVars, req>>

\* Another selection comes in between: one with exclusions, or by priority.
RROther(strategy, exclude) ==
    /\ sel.pc # "usage"
    /\ strategy = "priority" \/ exclude # {}
    /\ SelectEnter(strategy, exclude)
    /\ rrTrace' = <<>>
    /\ UNCHANGED <<accounts, pool, status, usage, imVars, hVars, req>>

\* The set of running accounts changes.
RRStop(id) ==
    /\ sel.pc # "usage"
    /\ status[id] = "running"
    /\ stopInstance(id)
    /\ rrTrace' = <<>>
    /\ UNCHANGED <<accounts, pool, usage, imVars, hVars, rrIndex, sel, req>>

RRStart(id) ==
    /\ sel.pc # "usage"
    /\ status[id] # "running"
    /\ startInstanceEnds(id, TRUE)
    /\ rrTrace' = <<>>
    /\ UNCHANGED <<accounts, pool, usage, imVars, hVars, rrIndex, sel, req>>

NextRR ==
    \/ RRCall
    \/ \E strategy \in {"round-robin", "priority"},
          exclude \in {{}} \cup {{id} : id \in Ids} : RROther(strategy, exclude)
    \/ \E id \in Ids : RRStop(id)
    \/ \E id \in Ids : RRStart(id)

SpecRR == InitRR /\ [][NextRR]_vars

(***************************************************************************)
(* SpecInst: the instance manager. startInstance calls suspend at their    *)
(* three upstream calls, refresh timers fire and their callbacks suspend   *)
(* at the token fetch, stopInstance runs in between.                       *)
(***************************************************************************)
\* startInstance calls made, i.e. ProxyInstance objects created.
MaxSessions == 2

\* The account ids the instance manager is called with. The registry is a Map
\* keyed by id and no step reads the entry of another id.
InstanceIds == {1}

\* (error as Error).message of the exception of each step.
MessageOf(pc) ==
    CASE pc = "version" -> "Failed to get VSCode version"
      [] pc = "token" -> "Failed to get Copilot token"
      [] OTHER -> "Failed to get models"

InitInst ==
    /\ accounts = [i \in 1 .. NAcc |-> Account(i, TRUE, PriorityOf(i))]
    /\ status = [i \in Ids |-> "absent"]
    /\ usage = [i \in Ids |-> NoUsage]
    /\ rrIndex = 0
    /\ sel = SelIdle
    /\ pool = NoPool
    /\ req = ReqIdle
    /\ rrTrace = <<>>
    /\ NoInstances
    /\ stream = NoStream
    /\ count = NoCount
    /\ op = NoOp

\* What no step of the instance manager touches.
UnchangedByInstances ==
    UNCHANGED <<accounts, pool, usage, rrIndex, sel, req, rrTrace, hVars>>

\* startInstance(account) finding a running instance: warns and returns.
StartInstanceRunning(id) ==
    /\ Len(sessions) < MaxSessions
    /\ status[id] = "running"
    /\ ev' = Event("start-noop", id, 0)
    /\ quiet' = [quiet EXCEPT ![id] = FALSE]
    /\ UNCHANGED <<status, sessions, registry>>
    /\ UnchangedByInstances

\* startInstance(account) otherwise: makes the state and the instance, which is
\* not in the registry yet, and suspends at getVSCodeVersion().
StartInstanceBeginsRegistered(id) ==
    /\ Len(sessions) < MaxSessions
    /\ status[id] # "running"
    /\ sessions' = Append(sessions, NewSession(id))
    /\ ev' = Event("start", id, Len(sessions) + 1)
    /\ quiet' = [quiet EXCEPT ![id] = FALSE]
    /\ status' = [status EXCEPT ![id] = "stopped"]
    /\ registry' = [registry EXCEPT ![id] = Len(sessions) + 1]
    /\ UnchangedByInstances

StartInstanceBegins(id) ==
    /\ Len(sessions) < MaxSessions
    /\ status[id] # "running"
    /\ sessions' = Append(sessions, NewSession(id))
    /\ ev' = Event("start", id, Len(sessions) + 1)
    /\ quiet' = [quiet EXCEPT ![id] = FALSE]
    /\ UNCHANGED <<status, registry>>
    /\ UnchangedByInstances

\* The catch block of startInstance: status error, the message kept, the
\* instance registered, the exception thrown again.
StartInstanceCatchKeepingStatus(k) ==
    /\ sessions' = [sessions EXCEPT ![k].pc = "over",
                                    ![k].error = MessageOf(sessions[k].pc)]
    /\ status' = [status EXCEPT ![sessions[k].id] = IF @ = "absent" THEN "stopped" ELSE @]
    /\ registry' = [registry EXCEPT ![sessions[k].id] = k]
    /\ ev' = [Event("threw", sessions[k].id, k) EXCEPT !.raised = MessageOf(sessions[k].pc)]

StartInstanceCatch(k) ==
    /\ sessions' = [sessions EXCEPT ![k].pc = "over",
                                    ![k].error = MessageOf(sessions[k].pc)]
    /\ status' = [status EXCEPT ![sessions[k].id] = "error"]
    /\ registry' = [registry EXCEPT ![sessions[k].id] = k]
    /\ ev' = [Event("threw", sessions[k].id, k) EXCEPT !.raised = MessageOf(sessions[k].pc)]

\* getVSCodeVersion() settles: setupInstanceToken issues the token fetch, or the
\* catch block runs.
VersionReturns(k, ok) ==
    /\ k \in 1 .. Len(sessions)
    /\ sessions[k].pc = "version"
    /\ IF ok
       THEN /\ sessions' = [sessions EXCEPT ![k].pc = "token"]
            /\ ev' = Event("token-fetch", sessions[k].id, k)
            /\ UNCHANGED <<status, registry>>
       ELSE StartInstanceCatch(k)
    /\ UNCHANGED quiet
    /\ UnchangedByInstances

\* setupInstanceToken after its fetch: stores the token and sets the interval.
setupInstanceTokenWithoutToken(ss, k) ==
    [ss EXCEPT ![k].tokenInterval = "armed"]

setupInstanceToken(ss, k) ==
    [ss EXCEPT ![k].copilotToken = SetupToken, ![k].tokenInterval = "armed"]

\* fetchCopilotToken of setupInstanceToken settles: the token is stored, the
\* interval set and fetchModels issued, or the catch block runs.
TokenReturns(k, ok) ==
    /\ k \in 1 .. Len(sessions)
    /\ sessions[k].pc = "token"
    /\ IF ok
       THEN /\ sessions' = [setupInstanceToken(sessions, k) EXCEPT ![k].pc = "models"]
            /\ ev' = Event("token-stored", sessions[k].id, k)
            /\ UNCHANGED <<status, registry>>
       ELSE StartInstanceCatch(k)
    /\ UNCHANGED quiet
    /\ UnchangedByInstances

ModelsReturnsKeepingEntry(k, ok) ==
    /\ k \in 1 .. Len(sessions)
    /\ sessions[k].pc = "models"
    /\ IF ok
       THEN /\ sessions' = [sessions EXCEPT ![k].pc = "over"]
            /\ status' = [status EXCEPT ![sessions[k].id] = "running"]
            /\ registry' = [registry EXCEPT ![sessions[k].id] = IF @ = 0 THEN k ELSE @]
            /\ ev' = Event("running", sessions[k].id, k)
       ELSE StartInstanceCatch(k)
    /\ UNCHANGED quiet
    /\ UnchangedByInstances

\* fetchModels settles: status running and instances.set, or the catch block.
ModelsReturns(k, ok) ==
    /\ k \in 1 .. Len(sessions)
    /\ sessions[k].pc = "models"
    /\ IF ok
       THEN /\ sessions' = [sessions EXCEPT ![k].pc = "over"]
            /\ status' = [status EXCEPT ![sessions[k].id] = "running"]
            /\ registry' = [registry EXCEPT ![sessions[k].id] = k]
            /\ ev' = Event("running", sessions[k].id, k)
       ELSE StartInstanceCatch(k)
    /\ UNCHANGED quiet
    /\ UnchangedByInstances

\* if (instance.tokenInterval) clearInterval(instance.tokenInterval)
clearInterval(ss, reg, id) ==
    IF reg[id] # 0 /\ ss[reg[id]].tokenInterval = "armed"
    THEN [ss EXCEPT ![reg[id]].tokenInterval = "cleared"]
    ELSE ss

\* stopInstance(accountId)
StopInstance(id) ==
    /\ stopInstance(id)
    /\ sessions' = clearInterval(sessions, registry, id)
    /\ ev' = Event("stop", id, registry[id])
    /\ quiet' = [quiet EXCEPT ![id] = TRUE]
    /\ UNCHANGED registry
    /\ UnchangedByInstances

\* The interval of setupInstanceToken fires: its callback issues the token fetch.
\* One callback of a session is in flight at a time.
RefreshTick(k) ==
    /\ k \in 1 .. Len(sessions)
    /\ sessions[k].tokenInterval = "armed"
    /\ ~sessions[k].refreshing
    /\ sessions' = [sessions EXCEPT ![k].refreshing = TRUE]
    /\ ev' = Event("refresh-fetch", sessions[k].id, k)
    /\ UNCHANGED <<status, registry, quiet>>
    /\ UnchangedByInstances

\* The catch block of the callback: the error is logged.
RefreshCatchClearingToken(ss, k) ==
    [ss EXCEPT ![k].refreshing = FALSE, ![k].copilotToken = NoToken]

RefreshCatch(ss, k) == [ss EXCEPT ![k].refreshing = FALSE]

\* The fetch of the callback settles: the token is stored, or the error logged.
RefreshReturns(k, ok) ==
    /\ k \in 1 .. Len(sessions)
    /\ sessions[k].refreshing
    /\ IF ok
       THEN /\ sessions' = [sessions EXCEPT ![k].refreshing = FALSE,
                                            ![k].copilotToken = RefreshToken]
            /\ ev' = Event("refreshed", sessions[k].id, k)
       ELSE /\ sessions' = RefreshCatch(sessions, k)
            /\ ev' = Event("refresh-failed", sessions[k].id, k)
    /\ UNCHANGED <<status, registry, quiet>>
    /\ UnchangedByInstances

NextInst ==
    \/ \E id \in InstanceIds : StartInstanceRunning(id)
    \/ \E id \in InstanceIds : StartInstanceBegins(id)
    \/ \E k \in 1 .. MaxSessions, ok \in BOOLEAN : VersionReturns(k, ok)
    \/ \E k \in 1 .. MaxSessions, ok \in BOOLEAN : TokenReturns(k, ok)
    \/ \E k \in 1 .. MaxSessions, ok \in BOOLEAN : ModelsReturns(k, ok)
    \/ \E id \in InstanceIds : StopInstance(id)
    \/ \E k \in 1 .. MaxSessions : RefreshTick(k)
    \/ \E k \in 1 .. MaxSessions, ok \in BOOLEAN : RefreshReturns(k, ok)

SpecInst == InitInst /\ [][NextInst]_vars

(***************************************************************************)
(* SpecAuto: the process from its start with --auto-start.                 *)
(* autoStartAccounts awaits startInstance for one stored account after the *)
(* other; the servers listen once it has returned, so stopInstance can be  *)
(* called only then; refresh timers of the instances already set up fire   *)
(* throughout.                                                             *)
(***************************************************************************)
\* A startInstance call has not settled.
Awaiting == \E k \in 1 .. Len(sessions) : sessions[k].pc # "over"

\* startInstance has been called for the account.
Attempted(id) == \E k \in 1 .. Len(sessions) : sessions[k].id = id

\* The position in the store of the account the loop of autoStartAccounts
\* turns to next, 0 at the end of the loop. A stored account has no status
\* field, so account.status !== "stopped" holds and enabled decides.
NextAutoStart ==
    LET left == {p \in 1 .. Len(accounts) :
                    accounts[p].enabled /\ ~Attempted(accounts[p].id)}
    IN  IF left = {} THEN 0 ELSE CHOOSE p \in left : \A q \in left : p <= q

LoopAliveUnlessThrown(ss) == \A k \in 1 .. Len(ss) : ss[k].error = NoError

\* The exception startInstance throws again is caught and logged inside the
\* loop, which goes on whatever the earlier calls did.
LoopAlive(ss) == TRUE

\* autoStartAccounts has returned and the servers listen.
Serving == ~Awaiting /\ NextAutoStart = 0

InitAuto ==
    /\ \E enabled \in [1 .. MaxSessions -> BOOLEAN] :
          accounts = [i \in 1 .. MaxSessions |-> Account(i, enabled[i], PriorityOf(i))]
    /\ status = [i \in Ids |-> "absent"]
    /\ usage = [i \in Ids |-> NoUsage]
    /\ rrIndex = 0
    /\ sel = SelIdle
    /\ pool = NoPool
    /\ req = ReqIdle
    /\ rrTrace = <<>>
    /\ NoInstances
    /\ stream = NoStream
    /\ count = NoCount
    /\ op = NoOp

\* The loop of autoStartAccounts calls startInstance for the next account.
AutoStartNext ==
    /\ ~Awaiting
    /\ LoopAlive(sessions)
    /\ NextAutoStart # 0
    /\ StartInstanceBegins(accounts[NextAutoStart].id)

\* A step that startInstance or the loop waits for.
StartupStep ==
    \/ AutoStartNext
    \/ \E k \in 1 .. MaxSessions, ok \in BOOLEAN : VersionReturns(k, ok)
    \/ \E k \in 1 .. MaxSessions, ok \in BOOLEAN : TokenReturns(k, ok)
    \/ \E k \in 1 .. MaxSessions, ok \in BOOLEAN : ModelsReturns(k, ok)

NextAuto ==
    \/ StartupStep
    \/ \E k \in 1 .. MaxSessions : RefreshTick(k)
    \/ \E k \in 1 .. MaxSessions, ok \in BOOLEAN : RefreshReturns(k, ok)
    \/ \E id \in StoredIds : Serving /\ StopInstance(id)

\* Every upstream call of the startup settles and the loop runs on.
SpecAuto == InitAuto /\ [][NextAuto]_vars /\ WF_vars(StartupStep)

(***************************************************************************)
(* SpecQuota: selectAccount("quota", exclude) over running, enabled         *)
(* accounts with any cached usage, the usage being what the upstream       *)
(* reported (getInstanceUsage returns its JSON as it is).                  *)
(***************************************************************************)
\* A quota snapshot with this much remaining of an entitlement of ScoreScale.
Snapshot(remaining) == <<remaining, ScoreScale>>

\* The snapshot of a quota without limit: entitlement 0, remaining 0.
Unlimited == <<0, 0>>

\* Usages with averages 0, 1/ScoreScale, 1/3, 2/3, and one with unlimited chat
\* and completions.
QuotaUsages ==
    {NoUsage,
     Usage(Snapshot(0), Snapshot(0), Snapshot(0)),
     Usage(Snapshot(1), Snapshot(1), Snapshot(1)),
     Usage(Snapshot(ScoreScale), Snapshot(0), Snapshot(0)),
     Usage(Snapshot(0), Snapshot(ScoreScale), Snapshot(ScoreScale)),
     Usage(Snapshot(1), Unlimited, Unlimited)}

InitQuota ==
    /\ accounts = [i \in 1 .. NAcc |-> Account(i, TRUE, PriorityOf(i))]
    /\ status = [i \in Ids |-> "running"]
    /\ usage \in [Ids -> QuotaUsages]
    /\ rrIndex \in 0 .. NAcc - 1
    /\ sel = SelIdle
    /\ pool = NoPool
    /\ req = ReqIdle
    /\ rrTrace = <<>>
    /\ NoInstances
    /\ stream = NoStream
    /\ count = NoCount
    /\ op = NoOp

QuotaCall(exclude) == SelCall("quota", exclude)

NextQuota ==
    \/ \E exclude \in SUBSET Ids : QuotaCall(exclude)
    \/ SelResume
    \/ SelTaken

SpecQuota == InitQuota /\ [][NextQuota]_vars

(***************************************************************************)
(* Spec: one inbound proxy request, from proxyAuth to the response, over   *)
(* any store, registry and pool configuration.                             *)
(***************************************************************************)
Pools ==
    {NoPool, PoolConfig(FALSE, "round-robin", PoolKey), PoolConfig(TRUE, "round-robin", "")}
       \cup {PoolConfig(TRUE, strategy, PoolKey) : strategy \in Strategies}

\* Why an account is not a candidate when the request arrives, if it is not.
RouterRoles == {"ready", "disabled", "down"}

\* What the registry holds for an instance that is not running: nothing, a
\* stopped instance or one whose start failed.
DownStatuses == {"absent", "stopped", "error"}

\* The accounts whose usage is in the cache when the request arrives.
CachedUsageIds == {2}

Init ==
    /\ \E role \in [Ids -> RouterRoles], down \in DownStatuses :
          /\ accounts = AccountsOfRoles(role)
          /\ status = [i \in Ids |-> IF role[i] = "down" THEN down ELSE "running"]
    /\ usage = [i \in Ids |-> IF i \in CachedUsageIds THEN UsageHalf ELSE NoUsage]
    /\ rrIndex = 0
    /\ pool \in Pools
    /\ sel = SelIdle
    /\ req = ReqIdle
    /\ rrTrace = <<>>
    /\ NoInstances
    /\ stream = NoStream
    /\ count = NoCount
    /\ op = NoOp

Next ==
    \/ \E header \in Headers, route \in {"retry", "models"}, jsonBody \in BOOLEAN :
          ProxyAuth(header, route, jsonBody)
    \/ \E st \in Statuses : HandlerReturns(st)
    \/ RetrySelect
    \/ SelectReturns
    \/ \E id \in Ids : ReqStop(id)
    \/ \E id \in Ids, ok \in BOOLEAN : ReqStart(id, ok)

Spec == Init /\ [][Next]_vars

(***************************************************************************)
(* SpecRoute: one request through proxyAuth, withPoolRetry and the handler *)
(* of its route, every account enabled and running, each attempt ending     *)
(* with what the upstream answers.                                          *)
(***************************************************************************)
\* max_tokens of an inbound body that has one.
InboundMaxTokens == 1024

\* What the upstream call of a handler ends with: no status (the fetch threw) or
\* a status.
Upstreams == {0} \cup Statuses

\* The requests: the handler of the route, with or without max_tokens, for a
\* model served by /chat/completions or by /responses only.
Requests ==
    {[ReqIdle EXCEPT !.handler = h, !.responsesOnly = ro, !.maxTokensIn = m,
                     !.bodyMaxTokens = m] :
        h \in Handlers, ro \in BOOLEAN, m \in {0, InboundMaxTokens}}

InitRoute ==
    /\ accounts = [i \in 1 .. NAcc |-> Account(i, TRUE, PriorityOf(i))]
    /\ status = [i \in Ids |-> "running"]
    /\ usage = [i \in Ids |-> NoUsage]
    /\ rrIndex \in 0 .. NAcc - 1
    /\ pool \in {PoolConfig(TRUE, strategy, PoolKey) : strategy \in {"round-robin", "priority"}}
    /\ sel = SelIdle
    /\ req \in {r \in Requests : r.responsesOnly => r.handler = "completionsHandler"}
    /\ rrTrace = <<>>
    /\ NoInstances
    /\ stream = NoStream
    /\ count = NoCount
    /\ op = NoOp

\* The keys of the requests: the pool key and the key of the first account.
RouteHeaders == {<<"Bearer", PoolKey>>, <<"Bearer", AccountKeyNames[1]>>}

NextRoute ==
    \/ \E header \in RouteHeaders, jsonBody \in BOOLEAN : ProxyAuth(header, "retry", jsonBody)
    \/ \E up \in Upstreams : UpstreamReturns(up)
    \/ HandlerParseFails
    \/ RetrySelect

SpecRoute == InitRoute /\ [][NextRoute]_vars

(***************************************************************************)
(* SpecStream: a streamed upstream response read event by event, by the    *)
(* loop of messagesHandler (OpenAI chunks to Anthropic events) or by        *)
(* translateStream (Responses-API events to OpenAI chunks).                 *)
(***************************************************************************)
\* Upstream events of one response.
MaxEvents == 4

\* Tool calls of one response; their OpenAI indexes are 0 .. MaxToolCalls - 1.
MaxToolCalls == 2

ToolIndexes == 0 .. MaxToolCalls - 1

\* An upstream event: one without data, one whose data is not JSON, the [DONE]
\* marker, or a chunk: a text delta, a tool-call delta of an index, or the
\* terminal chunk with its finish_reason.
NoChunk == {[kind |-> k, index |-> 0, reason |-> ""] : k \in {"empty", "bad", "done"}}

Chunks ==
    {[kind |-> "text", index |-> 0, reason |-> ""]}
       \cup {[kind |-> "tool", index |-> i, reason |-> ""] : i \in ToolIndexes}
       \cup {[kind |-> "finish", index |-> 0, reason |-> r] : r \in {"stop", "tool_calls"}}

UpstreamEvents == NoChunk \cup Chunks

\* The terminal events of the Responses API other than response.completed
\* (which is the finish kind above, its reason telling whether the final output
\* holds a function_call item).
OtherTerminalEvents ==
    {[kind |-> k, index |-> 0, reason |-> ""] :
        k \in {"response.incomplete", "response.failed", "error"}}

\* What the upstream of a mode can send.
EventsOf(mode) ==
    IF mode = "responses" THEN UpstreamEvents \cup OtherTerminalEvents ELSE UpstreamEvents

\* What is written to the client: its type, the block index (-1: none), a
\* detail (block type, delta type or stop_reason) and the position of the
\* upstream event it comes from.
Written(type, index, detail) == [type |-> type, index |-> index, detail |-> detail, src |-> 0]

\* streamState as messagesHandler makes it; toolCalls[i] is anthropicBlockIndex
\* of the OpenAI tool call i, -1 while i has not been seen.
FreshStreamState ==
    [messageStartSent |-> FALSE, contentBlockIndex |-> 0, contentBlockOpen |-> FALSE,
     toolCalls |-> [i \in ToolIndexes |-> -1]]

mapOpenAIStopReasonEndTurn(reason) == "end_turn"

\* tool_calls maps to tool_use, anything else to end_turn.
mapOpenAIStopReason(reason) == IF reason = "tool_calls" THEN "tool_use" ELSE "end_turn"

\* message_start, once per stream.
WithMessageStart(st) ==
    [out |-> IF st.messageStartSent THEN <<>> ELSE <<Written("message_start", -1, "")>>,
     state |-> [st EXCEPT !.messageStartSent = TRUE]]

\* The open block, if any, is closed.
CloseBlock(r) ==
    IF ~r.state.contentBlockOpen THEN r
    ELSE [out |-> Append(r.out, Written("content_block_stop", r.state.contentBlockIndex, "")),
          state |-> [r.state EXCEPT !.contentBlockIndex = @ + 1, !.contentBlockOpen = FALSE]]

ToolBlockOpen(st) ==
    st.contentBlockOpen /\ \E i \in ToolIndexes : st.toolCalls[i] = st.contentBlockIndex

\* A text delta: a text block is opened unless one is open, an open tool block
\* being closed first; the delta goes to the open block.
TextDelta(r) ==
    LET c == IF ToolBlockOpen(r.state) THEN CloseBlock(r) ELSE r
        o == IF c.state.contentBlockOpen THEN c
             ELSE [out |-> Append(c.out, Written("content_block_start",
                                                 c.state.contentBlockIndex, "text")),
                   state |-> [c.state EXCEPT !.contentBlockOpen = TRUE]]
    IN  [out |-> Append(o.out, Written("content_block_delta", o.state.contentBlockIndex,
                                       "text_delta")),
         state |-> o.state]

\* A tool-call delta: an index seen for the first time closes the open block,
\* gets the next block index, which toolCalls remembers, and opens a tool_use
\* block; the argument delta goes to the block toolCalls has for the index.
ToolDelta(r, i) ==
    LET c == CloseBlock(r)
        o == IF r.state.toolCalls[i] # -1 THEN r
             ELSE [out |-> Append(c.out, Written("content_block_start",
                                                 c.state.contentBlockIndex, "tool_use")),
                   state |-> [c.state EXCEPT !.toolCalls[i] = c.state.contentBlockIndex,
                                             !.contentBlockOpen = TRUE]]
    IN  [out |-> Append(o.out, Written("content_block_delta", o.state.toolCalls[i],
                                       "input_json_delta")),
         state |-> o.state]

\* The terminal chunk: the open block is closed, then message_delta with the
\* mapped stop_reason and message_stop.
FinishDelta(r, reason) ==
    LET c == CloseBlock(r)
    IN  [out |-> c.out \o <<Written("message_delta", -1, mapOpenAIStopReason(reason)),
                            Written("message_stop", -1, "")>>,
         state |-> c.state]

\* translateChunkToAnthropicEvents(chunk, streamState): the events and the
\* streamState after the call.
translateChunkToAnthropicEvents(chunk, st) ==
    LET r == WithMessageStart(st)
    IN  CASE chunk.kind = "text" -> TextDelta(r)
          [] chunk.kind = "tool" -> ToolDelta(r, chunk.index)
          [] OTHER -> FinishDelta(r, chunk.reason)

\* The chunks translateStream yields for a Responses-API event with JSON data:
\* one chunk, and after that of response.completed the [DONE] marker; no branch
\* is for another event type.
ResponsesChunks(event) ==
    IF event \in OtherTerminalEvents THEN <<>>
    ELSE IF event.kind = "finish"
    THEN <<Written("chunk", -1, IF event.reason = "tool_calls" THEN "tool_calls" ELSE "stop"),
           Written("[DONE]", -1, "")>>
    ELSE <<Written("chunk", -1, event.kind)>>

Stamp(events, pos) == [k \in 1 .. Len(events) |-> [events[k] EXCEPT !.src = pos]]

InitStream ==
    /\ accounts = [i \in 1 .. NAcc |-> Account(i, TRUE, PriorityOf(i))]
    /\ status = [i \in Ids |-> "running"]
    /\ usage = [i \in Ids |-> NoUsage]
    /\ rrIndex = 0
    /\ sel = SelIdle
    /\ pool = NoPool
    /\ req = ReqIdle
    /\ rrTrace = <<>>
    /\ NoInstances
    /\ count = NoCount
    /\ op = NoOp
    /\ \E mode \in {"messages", "responses"}, n \in 1 .. MaxEvents :
          \E input \in [1 .. n -> EventsOf(mode)] :
              stream = [mode |-> mode, input |-> input, pos |-> 1, live |-> TRUE,
                        out |-> <<>>, state |-> FreshStreamState]

UnchangedByStream ==
    UNCHANGED <<accounts, pool, status, usage, rrIndex, sel, req, rrTrace, imVars, count, op>>

\* JSON.parse(rawEvent.data) is not guarded in messagesHandler: its exception
\* leaves the loop and the callback of streamSSE, which ends the stream.
MessagesParseFailure(st) == [st EXCEPT !.live = FALSE]

\* One turn of the loop of messagesHandler (part_008 384-396).
MessagesNext ==
    LET event == stream.input[stream.pos]
        at == [stream EXCEPT !.pos = @ + 1]
        r == translateChunkToAnthropicEvents(event, stream.state)
    IN  /\ stream.mode = "messages" /\ stream.live /\ stream.pos <= Len(stream.input)
        /\ stream' = CASE event.kind = "done" -> [at EXCEPT !.live = FALSE]
                       [] event.kind = "empty" -> at
                       [] event.kind = "bad" -> MessagesParseFailure(at)
                       [] OTHER -> [at EXCEPT !.out = @ \o Stamp(r.out, stream.pos),
                                              !.state = r.state]
        /\ UnchangedByStream

\* One turn of the loop of translateStream (create-responses.ts 456-570).
ResponsesNext ==
    LET event == stream.input[stream.pos]
        at == [stream EXCEPT !.pos = @ + 1]
    IN  /\ stream.mode = "responses" /\ stream.live /\ stream.pos <= Len(stream.input)
        /\ stream' = IF event.kind \in {"empty", "done", "bad"} THEN at
                     ELSE [at EXCEPT !.out = @ \o Stamp(ResponsesChunks(event), stream.pos)]
        /\ UnchangedByStream

\* The upstream stream is at its end: the loop is left.
StreamEnds ==
    /\ stream.live /\ stream.pos > Len(stream.input)
    /\ stream' = [stream EXCEPT !.live = FALSE]
    /\ UnchangedByStream

NextStream == MessagesNext \/ ResponsesNext \/ StreamEnds

SpecStream == InitStream /\ [][NextStream]_vars

(***************************************************************************)
(* SpecCount: one call of countTokensHandler.  The fudge factors are        *)
(* doubles, so finalTokenCount * 1.15 is the IEEE 754 product: the exact    *)
(* product rounded to 53 significant bits, ties to even.  Numbers of that   *)
(* size are kept as five limbs of 15 bits, least significant first, scaled   *)
(* by 2^52.                                                                  *)
(***************************************************************************)
\* The largest raw estimate of a call.
MaxRaw == 100

LimbBase == 2^15

\* The doubles nearest to 1.15 and 1.03, times 2^52:
\* 5179139571476070 (0x1.2666666666666p+0) and 4638707616191611
\* (0x1.07ae147ae147bp+0).
Double115 == <<26214, 19660, 6553, 147, 0>>

Double103 == <<5243, 3932, 27525, 131, 0>>

RECURSIVE Normalise(_, _)
\* The carries of a limb sequence are propagated.
Normalise(limbs, carry) ==
    IF limbs = <<>> THEN <<>>
    ELSE <<(Head(limbs) + carry) % LimbBase>>
            \o Normalise(Tail(limbs), (Head(limbs) + carry) \div LimbBase)

RECURSIVE BitLengthOf(_)
BitLengthOf(n) == IF n = 0 THEN 0 ELSE 1 + BitLengthOf(n \div 2)

BitLength(limbs) ==
    LET used == {i \in 1 .. Len(limbs) : limbs[i] # 0}
        top == CHOOSE i \in used : \A j \in used : j <= i
    IN  IF used = {} THEN 0 ELSE 15 * (top - 1) + BitLengthOf(limbs[top])

Bit(limbs, i) == (limbs[(i \div 15) + 1] \div 2^(i % 15)) % 2

\* The exact value is rounded to 53 significant bits, a tie going to the even
\* neighbour.  The bits that are dropped are at most 15 for an integer factor
\* below 2^15, so they lie in the first limb.
RoundToDouble(limbs) ==
    LET drop == BitLength(limbs) - 53
        rest == limbs[1] % 2^drop
        half == 2^(drop - 1)
        up == rest > half \/ (rest = half /\ Bit(limbs, drop) = 1)
    IN  IF drop <= 0 THEN limbs
        ELSE Normalise([limbs EXCEPT ![1] = @ - rest + (IF up THEN 2^drop ELSE 0)], 0)

\* n * factor in double arithmetic, for an integer 0 <= n < 2^15.
TimesDouble(n, factor) ==
    RoundToDouble(Normalise([i \in 1 .. Len(factor) |-> factor[i] * n], 0))

\* Math.round(x) is floor(x + 0.5): 2^51 is added to x * 2^52 and the bits
\* from 2^52 on are the result.
MathRound(x) ==
    LET y == Normalise([x EXCEPT ![4] = @ + 2^6], 0)
    IN  (y[4] \div 2^7) + y[5] * 2^8

\* Model names, as the prefix startsWith looks at and the rest.
ModelNames == {<<"claude", "-x">>, <<"grok", "-x">>, <<"gpt", "-x">>, <<"x-", "claude">>}

startsWith(name, prefix) == name[1] = prefix

\* Where the call throws: nowhere, while the body is read and translated, or
\* in getTokenCount.
Throws == {"nowhere", "body", "getTokenCount"}

InputTokens(n) == [status |-> 200, input_tokens |-> n]

finalTokenCountPlain(model, tokenCount) == tokenCount.input + tokenCount.output

\* finalTokenCount of countTokensHandler.
finalTokenCount(model, tokenCount) ==
    LET raw == tokenCount.input + tokenCount.output
    IN  IF startsWith(model, "claude") THEN MathRound(TimesDouble(raw, Double115))
        ELSE IF startsWith(model, "grok") THEN MathRound(TimesDouble(raw, Double103))
        ELSE raw

InitCount ==
    /\ accounts = [i \in 1 .. NAcc |-> Account(i, TRUE, PriorityOf(i))]
    /\ status = [i \in Ids |-> "running"]
    /\ usage = [i \in Ids |-> NoUsage]
    /\ rrIndex = 0
    /\ sel = SelIdle
    /\ pool = NoPool
    /\ req = ReqIdle
    /\ rrTrace = <<>>
    /\ NoInstances
    /\ stream = NoStream
    /\ \E model \in ModelNames, catalog \in {{}, ModelNames \ {<<"gpt", "-x">>}, ModelNames},
          input \in 0 .. MaxRaw, output \in 0 .. 1, throws \in Throws :
          count = [NoCount EXCEPT !.pc = "called", !.model = model, !.catalog = catalog,
                                  !.tokenCount = [input |-> input, output |-> output],
                                  !.throws = throws]
    /\ op = NoOp

UnchangedByCount ==
    UNCHANGED <<accounts, pool, status, usage, rrIndex, sel, req, rrTrace, imVars, stream, op>>

\* The exception reaches the catch block: reading the body throws before the
\* catalog is looked at, getTokenCount is called for a model of the catalog.
CountCaught ==
    \/ count.throws = "body"
    \/ count.throws = "getTokenCount" /\ count.model \in count.catalog

\* The try block returns.
CountTokensReturns ==
    /\ count.pc = "called" /\ ~CountCaught
    /\ count' = [count EXCEPT
                    !.pc = "returned",
                    !.response = IF count.model \notin count.catalog THEN InputTokens(1)
                                 ELSE InputTokens(finalTokenCount(count.model,
                                                                  count.tokenCount))]
    /\ UnchangedByCount

\* The catch block returns.
CountTokensCatch ==
    /\ count.pc = "called" /\ CountCaught
    /\ count' = [count EXCEPT !.pc = "returned", !.response = InputTokens(1)]
    /\ UnchangedByCount

NextCount == CountTokensReturns \/ CountTokensCatch

SpecCount == InitCount /\ [][NextCount]_vars

(***************************************************************************)
(* SpecPool: the pool entry of the account store under getPoolConfig,      *)
(* updatePoolConfig and regeneratePoolApiKey.                              *)
(***************************************************************************)
\* Keys generatePoolApiKey() can give.
GeneratedPoolKeys == {BackfilledPoolKey, "cpp-2"}

\* Partial<PoolConfig> as PUT /pool passes it: the fields that are present.
PoolUpdates ==
    [has : SUBSET {"enabled", "strategy"}, enabled : BOOLEAN,
     strategy : {"round-robin", "priority"}]

\* updatePoolConfig(config), key being what generatePoolApiKey() returns when
\* it is called.
updatePoolConfig(p, config, key) ==
    LET current == IF p.configured THEN p ELSE PoolConfig(FALSE, "round-robin", key)
        merged == [current EXCEPT
                      !.enabled = IF "enabled" \in config.has THEN config.enabled ELSE @,
                      !.strategy = IF "strategy" \in config.has THEN config.strategy ELSE @]
    IN  IF merged.apiKey = "" THEN [merged EXCEPT !.apiKey = key] ELSE merged

\* regeneratePoolApiKey()
regeneratePoolApiKey(p, key) ==
    [(IF p.configured THEN p ELSE PoolConfig(FALSE, "round-robin", key))
        EXCEPT !.apiKey = key]

PoolCall(kind, result) == [kind |-> kind, before |-> pool, result |-> result]

InitPool ==
    /\ accounts = [i \in 1 .. NAcc |-> Account(i, TRUE, PriorityOf(i))]
    /\ status = [i \in Ids |-> "running"]
    /\ usage = [i \in Ids |-> NoUsage]
    /\ rrIndex = 0
    /\ sel = SelIdle
    /\ pool \in Pools
    /\ req = ReqIdle
    /\ rrTrace = <<>>
    /\ NoInstances
    /\ stream = NoStream
    /\ count = NoCount
    /\ op = NoOp

UnchangedByPool ==
    UNCHANGED <<accounts, status, usage, rrIndex, sel, req, rrTrace, imVars, stream, count>>

\* getPoolConfig(): writeStore only when the key is back-filled.
PoolGet ==
    /\ pool' = getPoolConfig(pool)
    /\ op' = PoolCall("getPoolConfig", getPoolConfig(pool))
    /\ UnchangedByPool

PoolUpdate(config, key) ==
    /\ pool' = updatePoolConfig(pool, config, key)
    /\ op' = PoolCall("updatePoolConfig", updatePoolConfig(pool, config, key))
    /\ UnchangedByPool

PoolRegenerate(key) ==
    /\ pool' = regeneratePoolApiKey(pool, key)
    /\ op' = PoolCall("regeneratePoolApiKey", regeneratePoolApiKey(pool, key))
    /\ UnchangedByPool

NextPool ==
    \/ PoolGet
    \/ \E config \in PoolUpdates, key \in GeneratedPoolKeys : PoolUpdate(config, key)
    \/ \E key \in GeneratedPoolKeys : PoolRegenerate(key)

SpecPool == InitPool /\ [][NextPool]_vars

(***************************************************************************)
(* SpecShared: one inbound request over a store whose pool entry carries   *)
(* the pool key or the apiKey of the first account.  Generated keys begin   *)
(* with cpa- and cpp-, so the two are the same only in an accounts.json     *)
(* written outside the console; readStore takes the file as it is.          *)
(***************************************************************************)
SharedKey == AccountKeyNames[1]

InitShared ==
    /\ \E role \in [Ids -> RouterRoles], down \in DownStatuses :
          /\ accounts = AccountsOfRoles(role)
          /\ status = [i \in Ids |-> IF role[i] = "down" THEN down ELSE "running"]
    /\ usage = [i \in Ids |-> IF i \in CachedUsageIds THEN UsageHalf ELSE NoUsage]
    /\ rrIndex = 0
    /\ \E en \in BOOLEAN, strategy \in Strategies, key \in {PoolKey, SharedKey} :
          pool = PoolConfig(en, strategy, key)
    /\ sel = SelIdle
    /\ req = ReqIdle
    /\ rrTrace = <<>>
    /\ NoInstances
    /\ stream = NoStream
    /\ count = NoCount
    /\ op = NoOp

NextShared ==
    \/ \E token \in {PoolKey, SharedKey}, route \in {"retry", "models"} :
          ProxyAuth(<<"Bearer", token>>, route, TRUE)
    \/ \E st \in Statuses : HandlerReturns(st)
    \/ RetrySelect
    \/ SelectReturns

SpecShared == InitShared /\ [][NextShared]_vars

(***************************************************************************)
(* SpecAdmin: the admin store (admin.json) and two callers of setupAdmin.   *)
(* A call is suspended at readStore, at Bun.password.hash and at            *)
(* writeStore; the file is read and written as a whole.  The store object   *)
(* of a call is its own copy, parsed from the file.  createdAt of a session *)
(* is not read by setupAdmin and is left out.                               *)
(***************************************************************************)
SetupCallers == {1, 2}

AdminNames == {"admin", "root"}

\* SetupSchema: at least six characters.
Passwords == {"secret", "hunter22"}

\* Bun.password.hash
PasswordHash(password) == <<"hash", password>>

\* credentials: null
NoCredentials == [username |-> "", passwordHash |-> <<>>]

Credentials(username, password) ==
    [username |-> username, passwordHash |-> PasswordHash(password)]

\* generateSessionToken(): random, one per call
SessionToken(c) == <<"session", c>>

\* readStore() of a missing file
EmptyAdminStore == [credentials |-> NoCredentials, sessions |-> <<>>]

AdminAlreadyConfigured == "Admin already configured"

IdleSetup ==
    [pc |-> "idle", username |-> "", password |-> "", store |-> EmptyAdminStore,
     configured |-> FALSE, result |-> <<>>]

AdminStores ==
    {EmptyAdminStore}
        \cup {[credentials |-> Credentials("admin", "secret"), sessions |-> ss] :
                ss \in {<<>>, <<SessionToken(0)>>}}

InitAdmin ==
    /\ accounts = [i \in 1 .. NAcc |-> Account(i, TRUE, PriorityOf(i))]
    /\ status = [i \in Ids |-> "running"]
    /\ usage = [i \in Ids |-> NoUsage]
    /\ rrIndex = 0
    /\ sel = SelIdle
    /\ pool = NoPool
    /\ req = ReqIdle
    /\ rrTrace = <<>>
    /\ NoInstances
    /\ stream = NoStream
    /\ count = NoCount
    /\ \E file \in AdminStores :
          op = [kind |-> "admin", file |-> file, tokens |-> <<>>,
                calls |-> [c \in SetupCallers |-> IdleSetup]]

UnchangedByAdmin ==
    UNCHANGED <<accounts, pool, status, usage, rrIndex, sel, req, rrTrace, imVars, stream, count>>

\* POST /auth/setup with a valid body: setupAdmin is called and waits for
\* readStore.  configured records whether credentials exist at the call.
SetupBegins(c, username, password) ==
    /\ op.kind = "admin" /\ op.calls[c].pc \in {"idle", "returned", "thrown"}
    /\ op' = [op EXCEPT !.calls[c] =
                [pc |-> "reading", username |-> username, password |-> password,
                 store |-> EmptyAdminStore,
                 configured |-> op.file.credentials # NoCredentials,
                 result |-> <<>>]]
    /\ UnchangedByAdmin

\* readStore() returns; the call throws when credentials are stored.
SetupReads(c) ==
    /\ op.kind = "admin" /\ op.calls[c].pc = "reading"
    /\ op' = IF op.file.credentials # NoCredentials
             THEN [op EXCEPT !.calls[c].pc = "thrown",
                             !.calls[c].store = op.file,
                             !.calls[c].result = AdminAlreadyConfigured]
             ELSE [op EXCEPT !.calls[c].pc = "hashing", !.calls[c].store = op.file]
    /\ UnchangedByAdmin

\* Bun.password.hash returns; the call fills its store and starts writeStore.
SetupHashes(c) ==
    LET call == op.calls[c]
    IN  /\ op.kind = "admin" /\ call.pc = "hashing"
        /\ op' = [op EXCEPT !.calls[c].pc = "writing",
                            !.calls[c].store =
                                [credentials |-> Credentials(call.username, call.password),
                                 sessions |-> <<SessionToken(c)>>]]
        /\ UnchangedByAdmin

\* writeStore returns and setupAdmin returns the token.
SetupWrites(c) ==
    /\ op.kind = "admin" /\ op.calls[c].pc = "writing"
    /\ op' = [op EXCEPT !.file = op.calls[c].store,
                        !.tokens = Append(@, SessionToken(c)),
                        !.calls[c].pc = "returned",
                        !.calls[c].result = SessionToken(c)]
    /\ UnchangedByAdmin

NextAdmin ==
    \/ \E c \in SetupCallers, username \in AdminNames, password \in Passwords :
          SetupBegins(c, username, password)
    \/ \E c \in SetupCallers : SetupReads(c)
    \/ \E c \in SetupCallers : SetupHashes(c)
    \/ \E c \in SetupCallers : SetupWrites(c)

SpecAdmin == InitAdmin /\ [][NextAdmin]_vars

(***************************************************************************)
(* SpecAuth: one request through the middleware of createAuthMiddleware.    *)
(* A string is a sequence of pieces: a blank, or a word piece that holds no *)
(* white space.  Header names are looked up by Hono without regard to case. *)
(***************************************************************************)
MaxHeaderLen == 3

Blank == " "

RECURSIVE trimStart(_)
trimStart(s) == IF s # <<>> /\ Head(s) = Blank THEN trimStart(Tail(s)) ELSE s

RECURSIVE trimEnd(_)
trimEnd(s) ==
    IF s # <<>> /\ s[Len(s)] = Blank THEN trimEnd(SubSeq(s, 1, Len(s) - 1)) ELSE s

\* String.prototype.trim
trim(s) == trimEnd(trimStart(s))

\* The first run of pieces that are not blank.
RECURSIVE FirstWord(_)
FirstWord(s) ==
    IF s = <<>> \/ Head(s) = Blank THEN <<>> ELSE <<Head(s)>> \o FirstWord(Tail(s))

\* s.split(/\s+/) of a trimmed string: the empty string gives one empty word.
RECURSIVE split(_)
split(s) ==
    LET word == FirstWord(s)
        rest == SubSeq(s, Len(word) + 1, Len(s))
    IN  IF rest = <<>> THEN <<word>> ELSE <<word>> \o split(trimStart(rest))

\* words.join(" ")
RECURSIVE join(_)
join(words) ==
    IF words = <<>> THEN <<>>
    ELSE IF Len(words) = 1 THEN words[1]
    ELSE words[1] \o <<Blank>> \o join(Tail(words))

\* String.prototype.toLowerCase
toLowerCase(s) == [k \in 1 .. Len(s) |-> IF s[k] \in {"Bearer", "BEARER"} THEN "bearer" ELSE s[k]]

\* c.req.header(name): undefined, or the value
NoHeader == [present |-> FALSE, value |-> <<>>]

Header(value) == [present |-> TRUE, value |-> value]

\* string | null
NoKey == [found |-> FALSE, key |-> <<>>]

Key(key) == [found |-> TRUE, key |-> key]

\* auth.apiKeys of the config: undefined, a value that is no array, or an
\* array whose items are strings or something else.
StringItem(value) == [string |-> TRUE, value |-> value]

OtherItem == [string |-> FALSE, value |-> <<>>]

ApiKeysConfig(kind, items) == [kind |-> kind, items |-> items]

RECURSIVE Unique(_)
Unique(keys) ==
    IF keys = <<>> THEN <<>>
    ELSE LET front == Unique(SubSeq(keys, 1, Len(keys) - 1))
             last == keys[Len(keys)]
         IN  IF \E k \in 1 .. Len(front) : front[k] = last THEN front
             ELSE Append(front, last)

IsStringItem(item) == item.string

IsNotEmpty(key) == Len(key) > 0

normalizeApiKeys(apiKeys) ==
    IF apiKeys.kind # "array" THEN <<>>
    ELSE LET strings == SelectSeq(apiKeys.items, IsStringItem)
             trimmed == [k \in 1 .. Len(strings) |-> trim(strings[k].value)]
         IN  Unique(SelectSeq(trimmed, IsNotEmpty))

includes(list, item) == \E k \in 1 .. Len(list) : list[k] = item

extractRequestApiKeyBearerFirst(request) ==
    LET xApiKey == trim(request.xApiKey.value)
        words == split(trim(request.authorization.value))
        bearerToken == trim(join(Tail(words)))
    IN  IF request.authorization.present /\ request.authorization.value # <<>>
           /\ toLowerCase(words[1]) = <<"bearer">> /\ bearerToken # <<>>
        THEN Key(bearerToken)
        ELSE IF request.xApiKey.present /\ xApiKey # <<>> THEN Key(xApiKey)
        ELSE NoKey

extractRequestApiKey(request) ==
    LET xApiKey == trim(request.xApiKey.value)
        words == split(trim(request.authorization.value))
        bearerToken == trim(join(Tail(words)))
    IN  IF request.xApiKey.present /\ xApiKey # <<>> THEN Key(xApiKey)
        ELSE IF ~request.authorization.present \/ request.authorization.value = <<>>
        THEN NoKey
        ELSE IF toLowerCase(words[1]) # <<"bearer">> THEN NoKey
        ELSE IF bearerToken # <<>> THEN Key(bearerToken)
        ELSE NoKey

\* The middleware: "next" when next() is called, else the status of the
\* response of createUnauthorizedResponse.
AuthMiddleware(options, request) ==
    LET apiKeys == normalizeApiKeys(options.apiKeys)
        requestApiKey == extractRequestApiKey(request)
    IN  IF options.allowOptionsBypass /\ request.method = "OPTIONS" THEN "next"
        ELSE IF includes(options.allowUnauthenticatedPaths, request.path) THEN "next"
        ELSE IF Len(apiKeys) = 0 THEN "next"
        ELSE IF ~requestApiKey.found \/ ~includes(apiKeys, requestApiKey.key)
        THEN "401"
        ELSE "next"

KeyOne == <<"k1">>

KeyTwo == <<"k2">>

ApiKeysConfigs ==
    {ApiKeysConfig("undefined", <<>>), ApiKeysConfig("other", <<>>)}
        \cup {ApiKeysConfig("array", items) :
                items \in {<<>>,
                           <<StringItem(KeyOne)>>,
                           <<StringItem(<<Blank, "k1", Blank>>)>>,
                           <<StringItem(<<Blank>>), OtherItem>>,
                           <<StringItem(KeyOne), StringItem(<<"k1", Blank>>)>>,
                           <<StringItem(KeyOne), OtherItem, StringItem(<<"k1", Blank, "k2">>)>>}}

AuthOptions ==
    [apiKeys : ApiKeysConfigs,
     allowUnauthenticatedPaths : {<<"/">>, <<>>},
     allowOptionsBypass : BOOLEAN]

XApiKeyHeaders ==
    {NoHeader} \cup {Header(v) : v \in {<<>>, <<Blank>>, KeyOne, <<Blank, "k1", Blank>>, KeyTwo}}

HeaderPieces == {Blank, "Bearer", "BEARER", "Basic", "k1", "k2"}

HeaderValues == UNION {[1 .. n -> HeaderPieces] : n \in 0 .. MaxHeaderLen}

AuthorizationHeaders == {NoHeader} \cup {Header(v) : v \in HeaderValues}

AuthRequests ==
    [method : {"GET", "OPTIONS"}, path : {"/", "/v1/messages"},
     xApiKey : XApiKeyHeaders, authorization : AuthorizationHeaders]

InitAuth ==
    /\ accounts = [i \in 1 .. NAcc |-> Account(i, TRUE, PriorityOf(i))]
    /\ status = [i \in Ids |-> "running"]
    /\ usage = [i \in Ids |-> NoUsage]
    /\ rrIndex = 0
    /\ sel = SelIdle
    /\ pool = NoPool
    /\ req = ReqIdle
    /\ rrTrace = <<>>
    /\ NoInstances
    /\ stream = NoStream
    /\ count = NoCount
    /\ \E options \in AuthOptions :
          op = [kind |-> "auth", options |-> options, served |-> FALSE]

\* A request passes the middleware.
AuthRequest ==
    /\ op.kind = "auth" /\ ~op.served
    /\ \E request \in AuthRequests :
          op' = [kind |-> "auth", options |-> op.options, served |-> TRUE,
                 request |-> request, outcome |-> AuthMiddleware(op.options, request)]
    /\ UnchangedByAdmin

NextAuth == AuthRequest

SpecAuth == InitAuth /\ [][NextAuth]_vars

NoCachedUsage(running) ==
    \A k \in 1 .. Len(running) : ~usage[running[k].id].cached

\* C10: when no candidate has cached usage, selectAccount("quota", exclude)
\* returns the account, and leaves the cursor at the value, that
\* selectAccount("round-robin", exclude) returns and leaves from the same cursor
\* value and candidate set.
C10_QuotaFallbackIsRoundRobin ==
    /\ sel.pc = "returned" /\ sel.strategy = "quota"
    /\ NoCachedUsage(sel.running)
    /\ Candidates(accounts, status, sel.exclude) = sel.running
    => IF sel.running = <<>>
       THEN sel.result = NullResult /\ rrIndex = sel.rr0
       ELSE LET rr == RoundRobinPick(Candidates(accounts, status, sel.exclude), sel.rr0)
            IN  /\ sel.result = SelectResult(rr.selected, status)
                /\ sel.result.found
                /\ rrIndex = rr.rrIndex

\* A quota call over NAcc candidates without cached usage returned the last of
\* them and wrapped the cursor.
C10_Witness ==
    /\ sel.pc = "returned" /\ sel.strategy = "quota" /\ sel.result.found
    /\ NoCachedUsage(sel.running)
    /\ Len(sel.running) = NAcc
    /\ sel.result.account.id = NAcc
    /\ sel.rr0 = NAcc - 1 /\ rrIndex = 0

IdsOf(running) == {running[k].id : k \in 1 .. Len(running)}

\* C8: with a fixed set of N enabled running accounts, no exclusions and no
\* other selection in between, any N consecutive selectAccount("round-robin")
\* calls return each account exactly once, and the next N calls return them in
\* the same order.
C8_RoundRobinVisitsEachOnce ==
    LET n == Len(getRunningAccounts(accounts, status))
    IN  /\ \A i \in 1 .. Len(rrTrace) :
              i + n - 1 <= Len(rrTrace) =>
                 {rrTrace[j] : j \in i .. i + n - 1}
                    = IdsOf(getRunningAccounts(accounts, status))
        /\ \A i \in 1 .. Len(rrTrace) :
              i + n <= Len(rrTrace) => rrTrace[i + n] = rrTrace[i]

\* 2 * NAcc consecutive calls over NAcc running accounts, begun in mid-cycle.
C8_Witness ==
    /\ Len(rrTrace) = 2 * NAcc
    /\ Len(getRunningAccounts(accounts, status)) = NAcc
    /\ rrTrace[1] = 2

Position(a) == CHOOSE k \in 1 .. Len(accounts) : accounts[k] = a

\* C9: under strategy priority, selectAccount returns a candidate of maximal
\* priority and, among the candidates of that priority, the earliest in store
\* order; with priorities 3, 1, 2 it returns the account of priority 3 while it
\* is a candidate and the account of priority 2 once it is not.
C9_PriorityPicksFirstMaximal ==
    sel.pc = "returned" /\ sel.strategy = "priority" =>
        LET cands == Candidates(accounts, status, sel.exclude)
            r == sel.result
        IN  /\ r.found <=> cands # <<>>
            /\ r.found =>
                 /\ \E k \in 1 .. Len(cands) : cands[k] = r.account
                 /\ \A k \in 1 .. Len(cands) :
                       /\ cands[k].priority <= r.account.priority
                       /\ cands[k].priority = r.account.priority
                             => Position(r.account) <= Position(cands[k])
            /\ [k \in 1 .. 3 |-> accounts[k].priority] = <<3, 1, 2>>
                  /\ sel.exclude = {} /\ NAcc = 3 =>
                  /\ accounts[1].enabled /\ status[1] = "running" => r.account.id = 1
                  /\ ~(accounts[1].enabled /\ status[1] = "running")
                        /\ accounts[3].enabled /\ status[3] = "running"
                        => r.account.id = 3

\* Priorities 3, 1, 2: the account of priority 3 was stopped and the call
\* returned the account of priority 2.
C9_Witness ==
    /\ sel.pc = "returned" /\ sel.strategy = "priority" /\ sel.result.found
    /\ [k \in 1 .. 3 |-> accounts[k].priority] = <<3, 1, 2>>
    /\ sel.exclude = {}
    /\ status[1] = "stopped" /\ accounts[1].enabled
    /\ status[2] = "running" /\ accounts[2].enabled
    /\ sel.result.account.id = 3

\* The sum of the three ratios of a cached usage as a fraction, defined when no
\* entitlement is 0.
RatiosDefined(u) == u.premium[2] # 0 /\ u.chat[2] # 0 /\ u.completions[2] # 0

RatioSumNum(u) ==
    u.premium[1] * u.chat[2] * u.completions[2]
      + u.chat[1] * u.premium[2] * u.completions[2]
      + u.completions[1] * u.premium[2] * u.chat[2]

RatioSumDen(u) == u.premium[2] * u.chat[2] * u.completions[2]

\* The average of u is at least the average of v.
AverageAtLeast(u, v) ==
    RatioSumNum(u) * RatioSumDen(v) >= RatioSumNum(v) * RatioSumDen(u)

CachedCandidates == {k \in 1 .. Len(sel.running) : usage[sel.running[k].id].cached}

\* C11: under strategy quota the account is picked by round-robin exactly when
\* no candidate has cached usage; when some candidate has cached usage, the
\* account returned has cached usage and its average of the three ratios
\* remaining / entitlement is maximal among the candidates.
C11_QuotaPicksMaximalAverage ==
    sel.pc = "returned" /\ sel.strategy = "quota" /\ sel.running # <<>> =>
        /\ sel.byCursor <=> CachedCandidates = {}
        /\ CachedCandidates # {} =>
              /\ sel.result.found
              /\ usage[sel.result.account.id].cached
              /\ \A k \in CachedCandidates :
                    RatiosDefined(usage[sel.running[k].id]) =>
                       /\ RatiosDefined(usage[sel.result.account.id])
                       /\ AverageAtLeast(usage[sel.result.account.id],
                                         usage[sel.running[k].id])

\* C11, for cached usages whose entitlements are all positive: the fallback
\* happens exactly when no candidate has cached usage, and otherwise the account
\* returned is the first candidate of maximal average.
C11_QuotaPicksMaximalPositiveEntitlements ==
    /\ sel.pc = "returned" /\ sel.strategy = "quota" /\ sel.running # <<>>
    /\ \A k \in CachedCandidates : RatiosDefined(usage[sel.running[k].id])
    => /\ sel.byCursor <=> CachedCandidates = {}
       /\ CachedCandidates # {} =>
             /\ sel.result.found
             /\ usage[sel.result.account.id].cached
             /\ \A k \in CachedCandidates :
                   AverageAtLeast(usage[sel.result.account.id], usage[sel.running[k].id])

\* The account with the higher average was returned although it comes later in
\* the store than another candidate with cached usage and one without.
C11_Witness ==
    /\ sel.pc = "returned" /\ sel.strategy = "quota" /\ ~sel.byCursor
    /\ Len(sel.running) = NAcc
    /\ sel.result.account.id = NAcc
    /\ ~usage[1].cached
    /\ usage[2].cached /\ RatiosDefined(usage[2])
    /\ ~AverageAtLeast(usage[2], usage[NAcc])
    /\ \A k \in CachedCandidates : RatiosDefined(usage[sel.running[k].id])

(***************************************************************************)
(* Properties of the instance manager.                                     *)
(***************************************************************************)
\* The instance instances.get(id) of a present id.
InstanceOf(id) == sessions[registry[id]]

\* C12: an instance whose registry status is running has an upstream token
\* stored in its state.
C12_RunningHasToken ==
    \A id \in Ids :
        status[id] = "running" =>
            /\ registry[id] # 0
            /\ InstanceOf(id).copilotToken # NoToken
            /\ getInstanceState(status, id) # NoState

\* A start has just made the instance running, with the token of its setup.
C12_Witness ==
    /\ ev.kind = "running"
    /\ status[ev.id] = "running"
    /\ registry[ev.id] = ev.session
    /\ InstanceOf(ev.id).copilotToken = SetupToken

\* The steps that issue a token fetch or write a token.
TokenSteps == {"token-fetch", "token-stored", "refresh-fetch", "refreshed"}

\* C13: after stopInstance(id) has returned and until a later startInstance(id),
\* no token fetch is issued and no token is written for any session created for
\* that id.
C13_NoTokenActivityAfterStop ==
    ev.kind \in TokenSteps => ~quiet[ev.id]

\* A refresh callback that was in flight when stopInstance ran has stored its
\* token in the stopped instance.
C13_RefreshAfterStop ==
    /\ ev.kind = "refreshed"
    /\ quiet[ev.id]
    /\ status[ev.id] = "stopped"
    /\ registry[ev.id] = ev.session
    /\ InstanceOf(ev.id).tokenInterval = "cleared"

\* The interval of an instance that a later start replaced in the registry
\* still fires after stopInstance.
C13_TimerAfterStop ==
    /\ ev.kind = "refresh-fetch"
    /\ quiet[ev.id]
    /\ status[ev.id] = "stopped"
    /\ registry[ev.id] # ev.session
    /\ sessions[ev.session].pc = "over"

\* The sessions of id that hold a token and an armed refresh interval.
LiveSessions(id) ==
    {k \in 1 .. Len(sessions) :
        /\ sessions[k].id = id
        /\ sessions[k].copilotToken # NoToken
        /\ sessions[k].tokenInterval = "armed"}

\* C14: for every account id and every interleaving of startInstance calls, at
\* most one live session (a fetched token with its own refresh interval) exists
\* at any time.
C14_AtMostOneLiveSession ==
    \A id \in Ids : Cardinality(LiveSessions(id)) <= 1

\* Two startInstance calls for the same id, the second made while the first was
\* suspended, have both fetched a token and set an interval.
C14_TwoLiveSessions ==
    /\ Len(sessions) >= 2
    /\ sessions[1].id = sessions[2].id
    /\ LiveSessions(sessions[1].id) = {1, 2}
    /\ sessions[1].pc = "models"
    /\ sessions[2].pc = "models"

StartMessages == {MessageOf("version"), MessageOf("token"), MessageOf("models")}

\* C15: when a step of startInstance throws, then on return the registry holds
\* an entry for the id with status error and the message of the exception, the
\* same exception is raised to the caller and getInstanceState(id) is undefined.
C15_FailedStartRecordsError ==
    ev.kind = "threw" =>
        /\ registry[ev.id] = ev.session
        /\ getInstanceStatus(status, ev.id) = "error"
        /\ ev.raised \in StartMessages
        /\ getInstanceError(sessions, registry, ev.id) = ev.raised
        /\ getInstanceState(status, ev.id) = NoState

\* A start that failed at the model fetch has replaced a running instance.
C15_Witness ==
    /\ ev.kind = "threw"
    /\ ev.raised = MessageOf("models")
    /\ ev.session = 2
    /\ sessions[1].id = ev.id
    /\ sessions[1].pc = "over"
    /\ sessions[1].error = NoError
    /\ status[ev.id] = "error"

\* C16: getInstanceState(id) returns a state if and only if the registry status
\* of id is exactly running; for an absent, stopped or errored id it returns
\* undefined, and getInstanceStatus of an absent id is stopped.
C16_StateOnlyWhenRunning ==
    \A id \in Ids :
        /\ getInstanceState(status, id) # NoState <=> status[id] = "running"
        /\ status[id] \in {"absent", "stopped", "error"} =>
              getInstanceState(status, id) = NoState
        /\ status[id] = "running" => getInstanceState(status, id) = StateOf(id)
        /\ status[id] = "absent" => getInstanceStatus(status, id) = "stopped"
        /\ status[id] = "absent" <=> registry[id] = 0

\* The entry of an id is in error with a token in its state and an armed
\* interval, and another id is absent.
C16_Witness ==
    /\ \E id \in Ids : status[id] = "absent" /\ registry[id] = 0
    /\ \E id \in Ids :
          /\ status[id] = "error"
          /\ InstanceOf(id).copilotToken # NoToken
          /\ InstanceOf(id).tokenInterval = "armed"
          /\ getInstanceState(status, id) = NoState

\* C17: stopInstance(id) on an absent id changes nothing; on a present id it
\* ends with status stopped and keeps the registry entry, so the error message
\* of an earlier failed start is still what getInstanceError(id) returns.
C17_StopKeepsEntry ==
    [][ev'.kind = "stop" =>
          IF status[ev'.id] = "absent"
          THEN /\ registry[ev'.id] = 0
               /\ UNCHANGED <<status, registry, sessions>>
          ELSE /\ status' = [status EXCEPT ![ev'.id] = "stopped"]
               /\ registry' = registry
               /\ registry[ev'.id] # 0
               /\ getInstanceStatus(status', ev'.id) = "stopped"
               /\ getInstanceError(sessions', registry', ev'.id)
                     = getInstanceError(sessions, registry, ev'.id)
               /\ \A k \in 1 .. Len(sessions) :
                     /\ sessions'[k].copilotToken = sessions[k].copilotToken
                     /\ sessions'[k].error = sessions[k].error
                     /\ k # registry[ev'.id] =>
                           sessions'[k].tokenInterval = sessions[k].tokenInterval]_vars

\* An instance whose start failed at the model fetch was stopped: its interval
\* is cleared and its error message is still there.
C17_Witness ==
    /\ ev.kind = "stop"
    /\ status[ev.id] = "stopped"
    /\ registry[ev.id] # 0
    /\ getInstanceError(sessions, registry, ev.id) = MessageOf("models")
    /\ InstanceOf(ev.id).tokenInterval = "cleared"

\* C18: per account id the registry status follows absent -> stopped ->
\* running <-> error: an id enters the registry as stopped, becomes running from
\* stopped or from error, becomes error from running, and every other change is
\* a stopInstance transition to stopped.
C18_StateMachineAsStated ==
    [][\A id \in Ids :
          status'[id] # status[id] =>
              /\ status[id] = "absent" => status'[id] = "stopped"
              /\ status'[id] = "running" => status[id] \in {"stopped", "error"}
              /\ status'[id] = "error" => status[id] = "running"
              /\ status'[id] \notin {"running", "error"} =>
                    status'[id] = "stopped" /\ ev'.kind = "stop" /\ ev'.id = id]_vars

\* C18, as the code has it: an id enters the registry at the end of its first
\* startInstance, as running or as error; it becomes running by a start that
\* succeeds, from absent, stopped or error; it becomes error by a start that
\* fails, from absent, stopped or running; it becomes stopped by stopInstance
\* only, from running or error; an entry never becomes absent again.
C18_StatusTransitions ==
    [][\A id \in Ids :
          status'[id] # status[id] =>
              \/ /\ status'[id] = "running"
                 /\ status[id] \in {"absent", "stopped", "error"}
                 /\ ev'.kind = "running" /\ ev'.id = id
              \/ /\ status'[id] = "error"
                 /\ status[id] \in {"absent", "stopped", "running"}
                 /\ ev'.kind = "threw" /\ ev'.id = id
              \/ /\ status'[id] = "stopped"
                 /\ status[id] \in {"running", "error"}
                 /\ ev'.kind = "stop" /\ ev'.id = id]_vars

\* The only startInstance call made so far has failed: the id has entered the
\* registry with status error.
C18_Witness ==
    /\ Len(sessions) = 1
    /\ ev.kind = "threw"
    /\ registry[ev.id] = 1
    /\ status[ev.id] = "error"

\* A start that failed has overwritten the running entry of an overlapping start.
C18_RunningToError ==
    /\ Len(sessions) = 2
    /\ ev.kind = "threw"
    /\ ev.session = 1
    /\ sessions[2].id = ev.id
    /\ sessions[2].pc = "over"
    /\ sessions[2].error = NoError
    /\ sessions[2].tokenInterval = "armed"
    /\ status[ev.id] = "error"

\* C19: when a scheduled token refresh fails, the session's token, the status
\* and the registry entry are unchanged, nothing is raised, and the refresh
\* interval stays as it was, so that an armed one fires again.
C19_RefreshFailureChangesNothing ==
    [][ev'.kind = "refresh-failed" =>
          /\ sessions[ev'.session].refreshing
          /\ sessions'[ev'.session].copilotToken = sessions[ev'.session].copilotToken
          /\ sessions'[ev'.session].copilotToken # NoToken
          /\ sessions'[ev'.session].tokenInterval = sessions[ev'.session].tokenInterval
          /\ sessions'[ev'.session].error = sessions[ev'.session].error
          /\ sessions'[ev'.session].tokenInterval = "armed" =>
                ~sessions'[ev'.session].refreshing
          /\ \A k \in 1 .. Len(sessions) : k # ev'.session => sessions'[k] = sessions[k]
          /\ ev'.raised = NoError
          /\ UNCHANGED <<status, registry, req, sel>>]_vars

\* A refresh of a running instance has failed after an earlier one succeeded:
\* the refreshed token is in place and the interval is armed.
C19_Witness ==
    /\ ev.kind = "refresh-failed"
    /\ status[ev.id] = "running"
    /\ registry[ev.id] = ev.session
    /\ InstanceOf(ev.id).copilotToken = RefreshToken
    /\ InstanceOf(ev.id).tokenInterval = "armed"
    /\ ~InstanceOf(ev.id).refreshing

(***************************************************************************)
(* Properties of the request router.                                       *)
(***************************************************************************)
CallIds == {req.calls[i].id : i \in 1 .. Len(req.calls)}

\* A status that stands for a transient failure: 429 or any status from 500 up.
TransientFailure(st) == st = 429 \/ st >= 500

\* C1: in pool mode the retry loop is bounded by the exclusion set: the handler
\* is invoked at most once per account id and at most as many times as there are
\* accounts, every account that answered a retryable status is in the exclusion
\* set of the later selections, and once every account has been tried the
\* selector has no candidate left, so that the request completes.
C1_PoolRetryBoundedByExclusion ==
    req.poolMode =>
        /\ \A i, j \in 1 .. Len(req.calls) : i # j => req.calls[i].id # req.calls[j].id
        /\ Len(req.calls) <= Len(accounts)
        /\ \A i \in 1 .. Len(req.calls) :
              TransientFailure(req.calls[i].status) => req.calls[i].id \in req.exclude
        /\ req.pc \in {"retry", "retrySelect"} => CallIds \subseteq req.exclude
        /\ req.pc = "retry" /\ Len(req.calls) = Len(accounts)
              => Candidates(accounts, status, req.exclude) = <<>>

\* Every account was tried, each answered a retryable status, and the request
\* completed.
C1_Witness ==
    /\ req.pc = "done" /\ req.poolMode /\ req.exhausted
    /\ Len(req.calls) = NAcc
    /\ \A i \in 1 .. NAcc : TransientFailure(req.calls[i].status)

C3_RetryIffTransientFailure ==
    req.poolMode /\ req.route = "retry" =>
        /\ \A i \in 1 .. Len(req.calls) :
              req.calls[i].status # 0 =>
                 ((req.selects > i \/ (i = Len(req.calls) /\ req.pc = "retry"))
                     <=> TransientFailure(req.calls[i].status))
        /\ req.pc = "done" /\ req.calls # <<>>
              /\ ~TransientFailure(req.calls[Len(req.calls)].status)
              => LET last == req.calls[Len(req.calls)]
                 IN  req.response = Response(last.status, last.id)

\* A 429 from the first account led to a second one, whose 499 was returned.
C3_Witness ==
    /\ req.pc = "done" /\ req.poolMode
    /\ Len(req.calls) = 2
    /\ req.calls[1].status = 429
    /\ req.calls[2].status = 499
    /\ req.response.status = 499
    /\ req.selects = 2

\* The stored account whose apiKey is the request's token, if any.
KeyOwners == {k \in 1 .. Len(accounts) : accounts[k].apiKey = req.token}

\* C4: a request under the apiKey of an account whose instance is running has
\* its handler invoked exactly once, on that account's state, and gets that
\* response, whatever its status: no other account is selected.
C4_DirectKeyInvokesHandlerOnce ==
    req.pc # "idle" /\ KeyOwners # {} /\ req.statusAtAuth = "running" =>
        \A k \in KeyOwners :
            /\ ~req.poolMode
            /\ req.selects = 0
            /\ Len(req.calls) = 1
            /\ req.calls[1].id = accounts[k].id
            /\ req.proxyState = StateOf(accounts[k].id)
            /\ req.pc = "done"
                  => req.response = Response(req.calls[1].status, accounts[k].id)

\* A direct request answered 500 while the pool was enabled and another enabled
\* account was running.
C4_Witness ==
    /\ req.pc = "done" /\ req.route = "retry"
    /\ req.statusAtAuth = "running"
    /\ req.response.status = 500
    /\ pool.configured /\ pool.enabled
    /\ \E k \in 1 .. Len(accounts) :
          /\ accounts[k].apiKey # req.token
          /\ accounts[k].enabled
          /\ status[accounts[k].id] = "running"

\* C5: a request under the apiKey of an account whose instance is not running is
\* answered 503; no handler is invoked and no other account takes its place.
C5_DirectKeyNotRunningIs503 ==
    req.pc # "idle" /\ KeyOwners # {} /\ req.statusAtAuth # "running" =>
        /\ req.statusAtAuth \in DownStatuses
        /\ req.pc = "done"
        /\ req.response = Response(503, 0)
        /\ req.calls = <<>>
        /\ req.selects = 0
        /\ ~req.poolMode
        /\ req.proxyState = NoState

\* The instance had failed to start, the pool was enabled and another enabled
\* account was running.
C5_Witness ==
    /\ req.pc = "done"
    /\ req.statusAtAuth = "error"
    /\ req.response.status = 503
    /\ pool.configured /\ pool.enabled /\ pool.apiKey = PoolKey
    /\ \E k \in 1 .. Len(accounts) :
          accounts[k].enabled /\ status[accounts[k].id] = "running"

\* C6: a request with no token, or with a token that is neither the apiKey of a
\* stored account nor the apiKey of an enabled pool, is answered 401 and no
\* handler is invoked; so is the pool's apiKey while the pool is disabled or not
\* configured.
C6_UnknownTokenIs401 ==
    /\ req.pc # "idle"
    /\ \/ req.token = ""
       \/ /\ KeyOwners = {}
          /\ ~(pool.configured /\ pool.enabled /\ pool.apiKey = req.token)
    => /\ req.pc = "done"
       /\ req.response = Response(401, 0)
       /\ req.calls = <<>>
       /\ req.selects = 0

\* The pool's apiKey, presented while the pool is disabled and an enabled
\* account is running.
C6_Witness ==
    /\ req.pc = "done"
    /\ req.token = PoolKey
    /\ pool.configured /\ ~pool.enabled /\ pool.apiKey = PoolKey
    /\ req.response.status = 401
    /\ \E k \in 1 .. Len(accounts) :
          accounts[k].enabled /\ status[accounts[k].id] = "running"

\* The accounts a further selection could still return: enabled, running and
\* not yet tried by this request.
UntriedCandidates ==
    {k \in 1 .. Len(accounts) :
        /\ accounts[k].enabled
        /\ getInstanceState(status, accounts[k].id) # NoState
        /\ accounts[k].id \notin CallIds}

\* C20: in pool mode a request whose selected account answers with an upstream
\* 401 is retried on another running account: the 401 is returned to the client
\* only when no other running account is left to try.
C20_Upstream401IsRetried ==
    /\ req.pc = "done" /\ req.poolMode /\ req.route = "retry"
    /\ req.calls # <<>>
    /\ req.response.status = 401
    => UntriedCandidates = {}

\* The first account answered 401 and that response was returned, with another
\* enabled, running account never tried.
C20_Upstream401Returned ==
    /\ req.pc = "done" /\ req.poolMode /\ req.route = "retry"
    /\ Len(req.calls) = 1
    /\ req.calls[1].status = 401
    /\ req.response = Response(401, req.calls[1].id)
    /\ req.selects = 1
    /\ UntriedCandidates # {}

(***************************************************************************)
(* Properties of the handlers.                                             *)
(***************************************************************************)
\* The handler invocations that have returned.
Returned == {i \in 1 .. Len(req.calls) : req.calls[i].status # 0}

\* C21: for every proxy handler (chat completions including the Responses-API
\* route, embeddings, messages), when the upstream answers a non-2xx status s
\* the handler's response has status s and a body {error: {message, type}};
\* status 500 is used only when no upstream status is known.
C21_UpstreamStatusForwarded ==
    req.handler # "countTokensHandler" =>
        \A i \in Returned :
            /\ req.calls[i].up # 0 /\ ~Ok(req.calls[i].up) =>
                  req.calls[i].status = req.calls[i].up /\ req.calls[i].body = "error"
            /\ req.calls[i].status = 500 =>
                  req.calls[i].up = 0 \/ req.calls[i].up = 500

\* C21 for the handlers that forward: completionsHandler on /chat/completions
\* and messagesHandler.
C21_ChatStatusForwarded ==
    \A i \in Returned :
        /\ req.handler \in {"completionsHandler", "messagesHandler"}
        /\ ~needsResponsesApi(req, req.calls[i].id)
        => /\ req.calls[i].up # 0 /\ ~Ok(req.calls[i].up) =>
                 req.calls[i].status = req.calls[i].up /\ req.calls[i].body = "error"
           /\ req.calls[i].status = 500 => req.calls[i].up = 0 \/ req.calls[i].up = 500

\* embeddingsHandler has answered 500 to an upstream 401.
C21_EmbeddingsMasksStatus ==
    /\ req.handler = "embeddingsHandler"
    /\ req.pc = "done" /\ ~req.poolMode
    /\ Len(req.calls) = 1
    /\ req.calls[1].up = 401
    /\ req.calls[1].status = 500
    /\ req.response.status = 500

\* An upstream status that is not retryable: a 4xx other than 429.
NonRetryable(up) == up >= 400 /\ up <= 499 /\ up # 429

\* Another account was tried, or is about to be selected, after invocation i.
RetriedAfter(i) == i < Len(req.calls) \/ req.pc \in {"retry", "retrySelect"} \/ req.exhausted

\* C22: in pool mode, on every endpoint routed through withPoolRetry, an
\* upstream response with a non-retryable status is surfaced to the client and
\* never causes another account to be tried; another account is tried only
\* after an upstream 429 or 5xx (or a fetch that gave no response).
C22_NonRetryableSurfaced ==
    req.poolMode =>
        \A i \in Returned :
            /\ NonRetryable(req.calls[i].up) =>
                  /\ ~RetriedAfter(i)
                  /\ req.pc = "done"
                  /\ req.response = Response(req.calls[i].up, req.calls[i].id)
            /\ RetriedAfter(i) =>
                  req.calls[i].up = 0 \/ req.calls[i].up = 429 \/ req.calls[i].up >= 500

\* In pool mode an upstream 401 of /embeddings was answered 500 by the handler,
\* and a second account was tried.
C22_EmbeddingsRetriedOn401 ==
    /\ req.poolMode /\ req.handler = "embeddingsHandler"
    /\ Len(req.calls) = 2
    /\ req.calls[1].up = 401
    /\ req.calls[1].status = 500
    /\ req.calls[2].id # req.calls[1].id
    /\ req.calls[2].up = 200
    /\ req.response = Response(200, req.calls[2].id)

\* C23: for every attempt of a request, if the inbound body has no max_tokens
\* and the catalog of the session used for the attempt lists the model, the
\* payload forwarded upstream carries that session's max_output_tokens.
C23_MaxTokensOfTheSessionUsed ==
    BackfillsMaxTokens(req.handler) /\ req.maxTokensIn = 0 =>
        \A i \in 1 .. Len(req.calls) :
            MaxOutputTokens(req.calls[i].id) # 0 =>
                req.calls[i].maxTokens = MaxOutputTokens(req.calls[i].id)

\* C23 for the first attempt, and for every attempt of messagesHandler.
C23_FirstAttemptBackfilled ==
    BackfillsMaxTokens(req.handler) /\ req.maxTokensIn = 0 =>
        \A i \in 1 .. Len(req.calls) :
            (i = 1 \/ req.handler = "messagesHandler") /\ MaxOutputTokens(req.calls[i].id) # 0
               => req.calls[i].maxTokens = MaxOutputTokens(req.calls[i].id)

\* A retry of completionsHandler has forwarded the limit of the first account's
\* catalog to a session whose catalog has another limit.
C23_RetryKeepsFirstLimit ==
    /\ req.handler = "completionsHandler" /\ req.poolMode /\ req.maxTokensIn = 0
    /\ Len(req.calls) = 2
    /\ MaxOutputTokens(req.calls[2].id) # 0
    /\ req.calls[2].maxTokens = MaxOutputTokens(req.calls[1].id)
    /\ req.calls[2].maxTokens # MaxOutputTokens(req.calls[2].id)

\* C24: every failure arising while routing a proxy request yields a JSON error
\* response and no exception leaves the route handler; a body that is not valid
\* JSON yields the handler's JSON error response in pool mode as in direct mode.
C24_FailuresBecomeJsonErrors ==
    /\ ~req.escaped
    /\ req.pc = "done" /\ ~req.jsonBody /\ req.handler # "countTokensHandler"
       /\ req.proxyState # NoState
       => /\ Len(req.calls) = 1
          /\ req.calls[1].body = "error"
          /\ req.response = Response(500, req.calls[1].id)

\* C24 outside pool mode: the handler's catch block answers the body that is
\* not JSON.
C24_DirectModeJsonError ==
    ~req.poolMode =>
        /\ ~req.escaped
        /\ req.pc = "done" /\ ~req.jsonBody /\ req.handler # "countTokensHandler"
           /\ req.proxyState # NoState
           => /\ Len(req.calls) = 1
              /\ req.calls[1].body = "error"
              /\ req.response = Response(500, req.calls[1].id)

\* In pool mode the body that is not JSON made withPoolRetry throw before any
\* handler was called.
C24_PoolBodyEscapes ==
    /\ req.pc = "done" /\ req.poolMode /\ ~req.jsonBody
    /\ req.escaped
    /\ req.calls = <<>>
    /\ req.selects = 1
    /\ req.response = Response(500, 0)

(***************************************************************************)
(* Properties of the stream translators.                                   *)
(***************************************************************************)
\* The positions of the chunks the loop has to deliver: those before the first
\* [DONE] marker in messagesHandler, all of them in translateStream.
Deliverable ==
    {p \in 1 .. Len(stream.input) :
        /\ stream.input[p] \in Chunks
        /\ stream.mode = "messages" =>
              \A q \in 1 .. p - 1 : stream.input[q].kind # "done"}

Delivered == {stream.out[k].src : k \in 1 .. Len(stream.out)}

\* C25: during a streamed response an upstream event whose data is not
\* parseable JSON is skipped and every later event is still translated and
\* delivered, in the Anthropic stream of messagesHandler and in the stream of
\* translateStream.
C25_BadEventIsSkipped ==
    ~stream.live /\ stream.mode # "none" => Deliverable \subseteq Delivered

\* C25 for translateStream.
C25_ResponsesBadEventIsSkipped ==
    ~stream.live /\ stream.mode = "responses" => Deliverable \subseteq Delivered

\* messagesHandler has ended the stream at an event that is not JSON, with a
\* text chunk and the terminal chunk after it undelivered.
C25_MessagesStreamCut ==
    /\ stream.mode = "messages" /\ ~stream.live
    /\ Len(stream.input) = 4
    /\ stream.input[1].kind = "text"
    /\ stream.input[2].kind = "bad"
    /\ stream.input[3].kind = "text"
    /\ stream.input[4].kind = "finish"
    /\ stream.pos = 3
    /\ Delivered = {1}

\* The stream of messagesHandler has ended after a sequence of chunks of which
\* the last one, and no other, carries finish_reason.
ChunksThenFinish ==
    /\ stream.mode = "messages" /\ ~stream.live
    /\ \A p \in 1 .. Len(stream.input) :
          /\ stream.input[p] \in Chunks
          /\ stream.input[p].kind = "finish" <=> p = Len(stream.input)

BlockEvents == {"content_block_start", "content_block_delta", "content_block_stop"}

\* message_start once and first, message_delta and message_stop once and last;
\* between them every content_block_start follows message_start or a
\* content_block_stop and has an index no earlier block has, every delta and
\* stop follows the start or a delta of its own index, and the last block is
\* stopped before message_delta.
WellBracketed(out) ==
    LET n == Len(out)
    IN  /\ n >= 3
        /\ out[1].type = "message_start"
        /\ out[n - 1].type = "message_delta"
        /\ out[n].type = "message_stop"
        /\ out[n - 2].type \in {"message_start", "content_block_stop"}
        /\ \A k \in 2 .. n - 2 :
              /\ out[k].type \in BlockEvents
              /\ out[k].type = "content_block_start" =>
                    /\ out[k - 1].type \in {"message_start", "content_block_stop"}
                    /\ \A j \in 2 .. k - 1 : out[j].index # out[k].index
              /\ out[k].type # "content_block_start" =>
                    /\ out[k - 1].type \in {"content_block_start", "content_block_delta"}
                    /\ out[k - 1].index = out[k].index

\* The deltas of each tool call arrive together: none comes after a delta of
\* another block has followed the first ones.
ToolDeltasTogether ==
    \A p, q, r \in 1 .. Len(stream.input) :
        p < q /\ q < r /\ stream.input[p].kind = "tool" /\ stream.input[r] = stream.input[p]
            => stream.input[q] = stream.input[p]

\* C26: for every sequence of OpenAI chunks that ends with a chunk carrying
\* finish_reason, the Anthropic events emitted through one streamState are
\* well bracketed: one message_start, first; then blocks, each a
\* content_block_start followed by deltas and a content_block_stop of the same
\* index, at most one block open at a time and no index reused; then
\* message_delta and message_stop, after every block is closed.
C26_WellBracketed == ChunksThenFinish => WellBracketed(stream.out)

\* C26 for the sequences in which the deltas of each tool call arrive together.
C26_WellBracketedWhenTogether ==
    ChunksThenFinish /\ ToolDeltasTogether => WellBracketed(stream.out)

\* A delta of tool call 0 arrives after tool call 1 has begun: it is written
\* to block 0, which was stopped when block 1 started.
C26_DeltaToClosedBlock ==
    /\ ChunksThenFinish
    /\ Len(stream.input) = 4
    /\ stream.input[1].kind = "tool" /\ stream.input[1].index = 0
    /\ stream.input[2].kind = "tool" /\ stream.input[2].index = 1
    /\ stream.input[3] = stream.input[1]
    /\ \E k \in 2 .. Len(stream.out) :
          /\ stream.out[k].type = "content_block_delta" /\ stream.out[k].index = 0
          /\ stream.out[k - 1].type = "content_block_delta" /\ stream.out[k - 1].index = 1

\* Text, then two deltas of one tool call, then the terminal chunk: two blocks,
\* 0 and 1, each started and stopped, the second with both deltas.
C26_Witness ==
    /\ ChunksThenFinish /\ ToolDeltasTogether
    /\ Len(stream.input) = 4
    /\ stream.input[1].kind = "text"
    /\ stream.input[2].kind = "tool" /\ stream.input[3].kind = "tool"
    /\ Len(stream.out) = 10
    /\ WellBracketed(stream.out)

\* The stream of messagesHandler has ended after the chunks: text delta "Hi",
\* tool-call delta with index 0, name f and arguments {}, chunk with
\* finish_reason tool_calls.
CanonicalChunks ==
    /\ stream.mode = "messages" /\ ~stream.live
    /\ stream.input = <<[kind |-> "text", index |-> 0, reason |-> ""],
                        [kind |-> "tool", index |-> 0, reason |-> ""],
                        [kind |-> "finish", index |-> 0, reason |-> "tool_calls"]>>

\* The positions of the written events of a type and detail.
WrittenAt(type, detail) ==
    {k \in 1 .. Len(stream.out) : stream.out[k].type = type /\ stream.out[k].detail = detail}

WrittenOfType(type) == {k \in 1 .. Len(stream.out) : stream.out[k].type = type}

\* C27: the chunks [text delta "Hi", tool-call delta index 0 name f arguments
\* {}, chunk with finish_reason tool_calls] through a fresh streamState yield
\* exactly one message_start, one text content_block_start with its
\* content_block_stop, one tool_use content_block_start with its
\* content_block_stop, and a final message_delta then message_stop whose
\* stop_reason is tool_use.
C27_CanonicalStream ==
    CanonicalChunks =>
        /\ WrittenOfType("message_start") = {1}
        /\ Cardinality(WrittenOfType("content_block_start")) = 2
        /\ Cardinality(WrittenOfType("content_block_stop")) = 2
        /\ \E t \in WrittenAt("content_block_start", "text") :
           \E u \in WrittenAt("content_block_start", "tool_use") :
           \E ts, us \in WrittenOfType("content_block_stop") :
              /\ t < ts /\ ts < u /\ u < us
              /\ stream.out[ts].index = stream.out[t].index
              /\ stream.out[us].index = stream.out[u].index
              /\ stream.out[t].index # stream.out[u].index
        /\ WrittenOfType("message_delta") = {Len(stream.out) - 1}
        /\ WrittenAt("message_delta", "tool_use") = {Len(stream.out) - 1}
        /\ WrittenOfType("message_stop") = {Len(stream.out)}

\* The canonical chunks have been translated: nine events, the last two from
\* the terminal chunk.
C27_Witness ==
    /\ CanonicalChunks
    /\ Len(stream.out) = 9
    /\ stream.out[8].src = 3
    /\ stream.pos = 4

(***************************************************************************)
(* Properties of countTokensHandler.                                       *)
(***************************************************************************)
\* n * percent / 100 rounded to the nearest integer, a half upwards.
RoundedPercent(n, percent) == (2 * n * percent + 100) \div 200

RawEstimate == count.tokenCount.input + count.tokenCount.output

\* The call returned a count for a model of the catalog.
Counted == count.pc = "returned" /\ ~CountCaught /\ count.model \in count.catalog

\* C28: countTokensHandler never answers with an error: for a model absent
\* from the session's catalog, or on any failure, the response is
\* {input_tokens: 1}; for a known model with raw estimate r it is
\* round(r * 1.15) when the model name starts with claude, round(r * 1.03)
\* when it starts with grok, and r otherwise.
C28_CountTokens ==
    count.pc = "returned" =>
        /\ count.response.status = 200
        /\ ~Counted => count.response.input_tokens = 1
        /\ Counted =>
              count.response.input_tokens =
                 IF startsWith(count.model, "claude") THEN RoundedPercent(RawEstimate, 115)
                 ELSE IF startsWith(count.model, "grok")
                      THEN RoundedPercent(RawEstimate, 103)
                      ELSE RawEstimate

\* r * 1.15 is half an integer exactly when r is 10, 30, 50, ... .
HalfwayEstimate(r) == r % 20 = 10

\* C28 with the rounding of the double product: the count for a claude model
\* is round(r * 1.15) unless r * 1.15 is half an integer, where it is that or
\* one less (12 for 10, 57 for 50); the rest as C28 says.
C28_CountTokensAsDoubles ==
    count.pc = "returned" =>
        /\ count.response.status = 200
        /\ ~Counted => count.response.input_tokens = 1
        /\ Counted /\ startsWith(count.model, "claude") =>
              /\ ~HalfwayEstimate(RawEstimate) =>
                    count.response.input_tokens = RoundedPercent(RawEstimate, 115)
              /\ HalfwayEstimate(RawEstimate) =>
                    count.response.input_tokens
                       \in {RoundedPercent(RawEstimate, 115) - 1, RoundedPercent(RawEstimate, 115)}
              /\ RawEstimate = 10 => count.response.input_tokens = 12
              /\ RawEstimate = 50 => count.response.input_tokens = 57
              /\ RawEstimate = 100 => count.response.input_tokens = 115
        /\ Counted /\ startsWith(count.model, "grok") =>
              /\ count.response.input_tokens = RoundedPercent(RawEstimate, 103)
              /\ RawEstimate = 100 => count.response.input_tokens = 103
        /\ Counted /\ ~startsWith(count.model, "claude") /\ ~startsWith(count.model, "grok") =>
              count.response.input_tokens = RawEstimate

\* The raw estimate 50 of a claude model is answered as 57: 50 * 1.15 is the
\* double 57.49999999999999.
C28_FiftyCountsAs57 ==
    /\ Counted /\ startsWith(count.model, "claude")
    /\ RawEstimate = 50
    /\ count.response.input_tokens = 57

\* The raw estimate 100 of a claude model is answered as 115.
C28_Witness ==
    /\ Counted /\ startsWith(count.model, "claude")
    /\ RawEstimate = 100
    /\ count.response.input_tokens = 115

(***************************************************************************)
(* Properties of the instances of different accounts.                      *)
(***************************************************************************)
\* The step just taken is one of startInstance, stopInstance or the refresh
\* callback for the account ev'.id: of every other account the registry entry,
\* the status and the instance, with its token and its timer, are as before.
OthersUnchanged ==
    \A b \in Ids :
        b # ev'.id =>
            /\ status'[b] = status[b]
            /\ registry'[b] = registry[b]
            /\ \A k \in 1 .. Len(sessions) : sessions[k].id = b => sessions'[k] = sessions[k]

AllAttempted ==
    \A p \in 1 .. Len(accounts) : accounts[p].enabled => Attempted(accounts[p].id)

SomeStartFailed == \E k \in 1 .. Len(sessions) : sessions[k].error # NoError

CallReturns == sel.pc # "returned" /\ sel'.pc = "returned"

\* C30: the round-robin cursor changes only in a selectAccount call that picks
\* its winner by round-robin: calls with strategy priority, calls with strategy
\* quota that pick by score, and calls that return null for an empty candidate
\* set leave the cursor unchanged.
C30_CursorMovesOnlyByRoundRobin ==
    [][/\ rrIndex' # rrIndex =>
             /\ CallReturns
             /\ sel'.byCursor
             /\ sel'.strategy \in {"round-robin", "quota"}
             /\ sel'.running # <<>>
       /\ CallReturns /\ sel'.strategy = "priority" => rrIndex' = rrIndex
       /\ CallReturns /\ sel'.strategy = "quota" /\ ~sel'.byCursor => rrIndex' = rrIndex
       /\ CallReturns /\ sel'.running = <<>> => rrIndex' = rrIndex]_vars

\* A priority call over two candidates or more has returned an account and
\* the cursor is where it was when the call began, away from 0.
C30_Witness ==
    /\ sel.pc = "returned" /\ sel.strategy = "priority"
    /\ Len(sel.running) >= 2
    /\ sel.result.found
    /\ rrIndex = sel.rr0 /\ rrIndex # 0

(***************************************************************************)
(* Properties of the pool entry.                                           *)
(***************************************************************************)
Returned31(kind) == op.kind = kind /\ ~op.before.configured

\* C31: the pool configuration is a singleton created lazily on first access:
\* the first getPoolConfig on a store that has no pool entry yields a
\* configuration carrying a freshly generated apiKey, and persists it, rather
\* than yielding nothing.
C31_GetCreatesThePool ==
    Returned31("getPoolConfig") =>
        /\ op.result.configured
        /\ op.result.apiKey \in GeneratedPoolKeys
        /\ pool = op.result

\* C31 as the store does it: getPoolConfig on a store without a pool entry
\* yields undefined and writes nothing; the entry is made by the first
\* updatePoolConfig or regeneratePoolApiKey, disabled and round-robin unless
\* the update says otherwise, with a generated key, and is persisted;
\* getPoolConfig generates a key only for an entry that has none.
C31_UpdateCreatesThePool ==
    /\ Returned31("getPoolConfig") => op.result = NoPool /\ pool = NoPool
    /\ Returned31("updatePoolConfig") \/ Returned31("regeneratePoolApiKey") =>
          /\ op.result.configured
          /\ op.result.apiKey \in GeneratedPoolKeys
          /\ pool = op.result
    /\ op.kind = "getPoolConfig" /\ op.before.configured =>
          /\ pool = op.result
          /\ op.result.apiKey # ""
          /\ op.before.apiKey # "" => op.result = op.before
          /\ op.before.apiKey = "" => op.result.apiKey \in GeneratedPoolKeys

\* getPoolConfig has returned undefined for a store without a pool entry.
C31_Witness ==
    /\ Returned31("getPoolConfig")
    /\ ~op.result.configured
    /\ ~pool.configured

(***************************************************************************)
(* Properties of calls that overlap with the console.                      *)
(***************************************************************************)
\* A candidate of the call whose instance is running when the call returns.
CandidateStillRunning ==
    \E k \in 1 .. Len(sel.running) : status[sel.running[k].id] = "running"

\* C32: selectAccount returns null only when the candidate set (enabled,
\* running, not excluded) is empty: for every strategy, quota with its
\* suspension at the usage cache included, a call made while at least one
\* candidate stays running never returns null because a different candidate
\* stopped meanwhile.
C32_NullOnlyWithoutCandidates ==
    sel.pc = "returned" /\ CandidateStillRunning => sel.result.found

\* C32 for the strategies that do not suspend after filtering.
C32_NullOnlyWithoutCandidatesUnsuspended ==
    sel.pc = "returned" /\ sel.strategy # "quota" =>
        (sel.result.found <=> sel.running # <<>>)

\* A quota call over two candidates or more returned null: the account it
\* picked was stopped while the call read the usage cache, and another
\* candidate is still running.
C32_NullWhileCandidateRuns ==
    /\ sel.pc = "returned" /\ sel.strategy = "quota"
    /\ ~sel.result.found
    /\ Len(sel.running) >= 2
    /\ sel.steps = 1
    /\ \E k \in 1 .. Len(sel.running) : status[sel.running[k].id] = "stopped"
    /\ CandidateStillRunning

\* C33: after stopInstance(id) has returned, getInstanceStatus(id) is not
\* running until a startInstance(id) call that begins after that return: a stop
\* issued while a startInstance for the same id is suspended at an upstream
\* call is not overridden when that start later completes.
C33_StopIsNotOverridden ==
    \A id \in Ids : quiet[id] => getInstanceStatus(status, id) # "running"

\* A startInstance that was suspended when stopInstance ran has completed and
\* registered its instance as running; no startInstance began after the stop.
C33_SuspendedStartOverridesStop ==
    /\ ev.kind = "running"
    /\ quiet[ev.id]
    /\ getInstanceStatus(status, ev.id) = "running"
    /\ registry[ev.id] = ev.session

\* The sessions that were registered and that a later startInstance replaced.
ReplacedSessions ==
    {k \in 1 .. Len(sessions) : sessions[k].pc = "over" /\ registry[sessions[k].id] > k}

\* C34: an instance whose status is error holds no active refresh timer, and a
\* session object that a later startInstance replaced in the registry holds
\* none either: a start that fails after token setup leaves no timer that
\* keeps fetching tokens.
C34_NoTimerWithoutRunningInstance ==
    /\ \A id \in Ids : status[id] = "error" => InstanceOf(id).tokenInterval # "armed"
    /\ \A k \in ReplacedSessions : sessions[k].tokenInterval # "armed"

\* The start failed at fetchModels, after setupInstanceToken: the instance is
\* registered in error with its interval set, and the interval has fired.
C34_TimerOfFailedStart ==
    /\ ev.kind = "refresh-fetch"
    /\ registry[ev.id] = ev.session
    /\ status[ev.id] = "error"
    /\ InstanceOf(ev.id).error = MessageOf("models")
    /\ InstanceOf(ev.id).tokenInterval = "armed"

\* C35: getInstanceError(id) is defined whenever the status of id is error and
\* undefined whenever the status of id is running: a successful restart after
\* a failed start clears the earlier error message.
C35_ErrorIffStatusError ==
    \A id \in Ids :
        /\ status[id] = "error" => getInstanceError(sessions, registry, id) # NoError
        /\ status[id] = "running" => getInstanceError(sessions, registry, id) = NoError

\* A start failed, a later start of the same id succeeded, and the error of
\* the first is no longer what getInstanceError returns.
C35_Witness ==
    /\ Len(sessions) = 2
    /\ sessions[1].id = sessions[2].id
    /\ sessions[1].error # NoError
    /\ ev.kind = "running" /\ ev.session = 2
    /\ registry[ev.id] = 2
    /\ status[ev.id] = "running"
    /\ getInstanceError(sessions, registry, ev.id) = NoError

(***************************************************************************)
(* Properties of the keys.                                                 *)
(***************************************************************************)
\* The token of the request is the apiKey of an account and of the pool.
TokenOfBoth ==
    /\ req.pc # "idle"
    /\ KeyOwners # {}
    /\ pool.configured /\ req.token = pool.apiKey

\* C36: when a bearer token equals both an account's apiKey and the pool's
\* apiKey, proxyAuth resolves it as the direct account key: the request is
\* bound to that account only, pool mode is not set, no selection is made and
\* no retry occurs, whatever the pool configuration.
C36_SharedKeyIsTheAccountKey ==
    TokenOfBoth =>
        /\ ~req.poolMode /\ req.poolAccountId = 0 /\ req.poolStrategy = "none"
        /\ req.selects = 0 /\ sel = SelIdle /\ rrIndex = 0
        /\ req.pc \in {"first", "done"}
        /\ Len(req.calls) <= 1
        /\ \A n \in 1 .. Len(req.calls) : req.calls[n].id \in {accounts[k].id : k \in KeyOwners}
        /\ req.statusAtAuth # "running" =>
              req.pc = "done" /\ req.response = Response(503, 0) /\ req.calls = <<>>
        /\ req.pc = "done" /\ req.calls # <<>> =>
              req.response = Response(req.calls[1].status, req.calls[1].id)

\* The pool is enabled with the key of account 1, other accounts run, and the
\* request with that key ended on the session of account 1 with a retryable
\* status.
C36_Witness ==
    /\ TokenOfBoth
    /\ pool.enabled
    /\ \E id \in Ids : id # 1 /\ status[id] = "running" /\ accounts[id].enabled
    /\ req.pc = "done"
    /\ req.response = Response(429, 1)

\* The stored account with this id is enabled.
EnabledInStore(id) == \E k \in 1 .. Len(accounts) : accounts[k].id = id /\ accounts[k].enabled

\* C37: a request authenticated by an account's own apiKey is served on that
\* account's session whenever its instance is running, even if the account's
\* enabled flag is false; the flag excludes an account only from pool
\* selection, so a disabled account is never chosen for a pool request or a
\* pool retry.
C37_DisabledOnlyLeavesThePool ==
    /\ req.pc # "idle" /\ req.statusAtAuth = "running" =>
          \A k \in KeyOwners :
              /\ req.calls # <<>>
              /\ \A n \in 1 .. Len(req.calls) : req.calls[n].id = accounts[k].id
              /\ req.proxyState = StateOf(accounts[k].id)
              /\ req.pc = "done" => req.response.by = accounts[k].id
    /\ req.poolMode =>
          /\ EnabledInStore(req.poolAccountId)
          /\ \A id \in req.exclude : EnabledInStore(id)
          /\ \A n \in 1 .. Len(req.calls) : EnabledInStore(req.calls[n].id)

\* A request under the key of a disabled account with a running instance was
\* answered from that account's session.
C37_Witness ==
    /\ req.pc = "done" /\ req.statusAtAuth = "running"
    /\ \E k \in KeyOwners : ~accounts[k].enabled /\ req.response = Response(200, accounts[k].id)

\* A pool request was retried past a disabled account with a running instance.
C37_PoolSkipsDisabled ==
    /\ req.poolMode /\ Len(req.calls) = 2
    /\ \E k \in 1 .. Len(accounts) :
          /\ ~accounts[k].enabled /\ status[accounts[k].id] = "running"
          /\ accounts[k].id \notin req.exclude

(***************************************************************************)
(* Properties of the end of a translated stream.                           *)
(***************************************************************************)
TerminalEvents == {e \in EventsOf("responses") : e.kind = "finish"} \cup OtherTerminalEvents

\* translateStream has read an upstream stream to its end, whose last event,
\* and no other, is a terminal one.
ResponsesStreamEnded ==
    /\ stream.mode = "responses" /\ ~stream.live
    /\ \A p \in 1 .. Len(stream.input) :
          stream.input[p] \in TerminalEvents <=> p = Len(stream.input)

FinishChunks ==
    {k \in 1 .. Len(stream.out) :
        stream.out[k].type = "chunk" /\ stream.out[k].detail \in {"stop", "tool_calls"}}

DoneMarkers == {k \in 1 .. Len(stream.out) : stream.out[k].type = "[DONE]"}

\* One chunk with finish_reason, then one [DONE], at the end.
EndsWithFinishAndDone ==
    /\ Len(stream.out) >= 2
    /\ FinishChunks = {Len(stream.out) - 1}
    /\ DoneMarkers = {Len(stream.out)}

\* C38: every chunk stream translateStream produces from an upstream
\* Responses-API stream that ends, ends with exactly one chunk carrying a
\* finish_reason (tool_calls if the final output contains a function_call
\* item, else stop) followed by exactly one [DONE], whichever terminal event
\* the upstream sends (response.completed, response.incomplete,
\* response.failed or error).
C38_EndsWithFinishAndDone ==
    ResponsesStreamEnded => EndsWithFinishAndDone

\* C38 for an upstream that ends with response.completed.
C38_CompletedEndsWithFinishAndDone ==
    ResponsesStreamEnded /\ stream.input[Len(stream.input)].kind = "finish" =>
        /\ EndsWithFinishAndDone
        /\ stream.out[Len(stream.out) - 1].detail
              = (IF stream.input[Len(stream.input)].reason = "tool_calls"
                 THEN "tool_calls" ELSE "stop")

\* The upstream sent a text delta and response.failed: the translated stream
\* is the text chunk alone, without finish_reason and without [DONE].
C38_FailedEndsNothing ==
    /\ ResponsesStreamEnded
    /\ Len(stream.input) = 2
    /\ stream.input[1].kind = "text"
    /\ stream.input[2].kind = "response.failed"
    /\ Len(stream.out) = 1
    /\ FinishChunks = {} /\ DoneMarkers = {}

(***************************************************************************)
(* Properties of setupAdmin.                                                *)
(***************************************************************************)
\* A call made when credentials exist fails, and never comes to fill or write a
\* store.
RefusedOnceConfigured ==
    \A c \in SetupCallers :
        op.calls[c].configured =>
            /\ op.calls[c].pc \in {"reading", "thrown"}
            /\ op.calls[c].pc = "thrown" => op.calls[c].result = AdminAlreadyConfigured

\* The calls of setupAdmin that returned a token.
SetupsSucceeded == Len(op.tokens)

\* C39: admin credentials are set at most once: once credentials exist, every
\* setupAdmin call fails with "Admin already configured" and leaves the stored
\* credentials and sessions unchanged, and for any interleaving of two
\* concurrent setupAdmin calls on an unconfigured store at most one of them
\* succeeds.
C39_CredentialsSetAtMostOnce ==
    op.kind = "admin" => RefusedOnceConfigured /\ SetupsSucceeded <= 1

\* C39 for the calls made once credentials exist.
C39_ConfiguredStoreRefusesSetup ==
    op.kind = "admin" => RefusedOnceConfigured

\* Two calls made on an unconfigured store both returned a token; the file
\* holds the credentials and the session of the later writer only.
C39_BothSetupsSucceeded ==
    /\ op.kind = "admin"
    /\ \A c \in SetupCallers :
          /\ op.calls[c].pc = "returned" /\ ~op.calls[c].configured
          /\ op.calls[c].result = SessionToken(c)
    /\ op.calls[1].username # op.calls[2].username
    /\ op.tokens = <<SessionToken(1), SessionToken(2)>>
    /\ op.file = [credentials |-> Credentials(op.calls[2].username, op.calls[2].password),
                  sessions |-> <<SessionToken(2)>>]

(***************************************************************************)
(* Properties of the middleware of createAuthMiddleware.                    *)
(***************************************************************************)
\* The strings that s holds between leading and trailing blanks: one when s
\* is not blank, none when it is.
Cores(s) ==
    {SubSeq(s, i, j) : i \in 1 .. Len(s), j \in 1 .. Len(s)}
        \cap {SubSeq(s, i, j) :
                <<i, j>> \in {<<a, b>> \in (1 .. Len(s)) \X (1 .. Len(s)) :
                                 /\ a <= b /\ s[a] # Blank /\ s[b] # Blank
                                 /\ \A p \in 1 .. Len(s) : p < a \/ p > b => s[p] = Blank}}

\* k with every run of blanks made one blank.
RECURSIVE Squeezed(_)
Squeezed(k) ==
    IF Len(k) < 2 THEN k
    ELSE IF k[1] = Blank /\ k[2] = Blank THEN Squeezed(Tail(k))
    ELSE <<k[1]>> \o Squeezed(Tail(k))

\* The configured key set.
ConfiguredKeys(options) ==
    IF options.apiKeys.kind # "array" THEN {}
    ELSE UNION {Cores(options.apiKeys.items[k].value) :
                    k \in {p \in 1 .. Len(options.apiKeys.items) :
                              options.apiKeys.items[p].string}}

\* The key of the x-api-key header.
XApiKeys(request) ==
    IF request.xApiKey.present THEN Cores(request.xApiKey.value) ELSE {}

\* The key of an Authorization header of the Bearer scheme, in any case.
BearerKeys(request) ==
    LET value == request.authorization.value
    IN  IF ~request.authorization.present THEN {}
        ELSE UNION {{Squeezed(k) : k \in Cores(SubSeq(value, p + 2, Len(value)))} :
                       p \in {q \in 1 .. Len(value) - 1 :
                                 /\ value[q] \in {"Bearer", "BEARER"}
                                 /\ value[q + 1] = Blank
                                 /\ \A b \in 1 .. q - 1 : value[b] = Blank}}

\* The key of the request: that of x-api-key when there is one.
RequestKeys(request) ==
    IF XApiKeys(request) # {} THEN XApiKeys(request) ELSE BearerKeys(request)

Allowed(options, request) ==
    \/ options.allowOptionsBypass /\ request.method = "OPTIONS"
    \/ \E k \in 1 .. Len(options.allowUnauthenticatedPaths) :
          options.allowUnauthenticatedPaths[k] = request.path
    \/ RequestKeys(request) \cap ConfiguredKeys(options) # {}

\* C40: with a non-empty configured key set, the middleware lets a request
\* reach the next handler if and only if it is an OPTIONS request (bypass
\* enabled), its path is in the unauthenticated list, or the key extracted
\* from x-api-key (preferred) or from a Bearer Authorization header is in the
\* set; every other request gets 401 and never reaches next.  With an empty
\* key set every request reaches next.
C40_NextIffAllowed ==
    op.kind = "auth" /\ op.served =>
        IF ConfiguredKeys(op.options) = {} THEN op.outcome = "next"
        ELSE /\ op.outcome \in {"next", "401"}
             /\ op.outcome = "next" <=> Allowed(op.options, op.request)

\* A GET of a path that is not listed, with a key in x-api-key that is not
\* configured and a configured key as Bearer token: 401.
C40_Witness ==
    /\ op.kind = "auth" /\ op.served
    /\ op.request.method = "GET" /\ op.request.path = "/v1/messages"
    /\ op.request.xApiKey = Header(KeyTwo)
    /\ op.request.authorization = Header(<<"Bearer", Blank, "k1">>)
    /\ ConfiguredKeys(op.options) = {KeyOne}
    /\ op.outcome = "401"

\* A GET that is let through for its Bearer token alone, written with blanks
\* around it and in capitals, against a key configured with blanks around it.
C40_BearerLetThrough ==
    /\ op.kind = "auth" /\ op.served
    /\ op.request.method = "GET" /\ op.request.path = "/v1/messages"
    /\ op.request.xApiKey = Header(<<Blank>>)
    /\ op.request.authorization = Header(<<"BEARER", Blank, "k1">>)
    /\ op.options.apiKeys.items = <<StringItem(<<Blank, "k1", Blank>>)>>
    /\ op.options.allowUnauthenticatedPaths = <<>>
    /\ op.outcome = "next"

====
